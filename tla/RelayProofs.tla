---------------------------- MODULE RelayProofs -----------------------------
(***************************************************************************)
(* The relay path of the domain fronter: which deployment a request goes   *)
(* to, what it may cost, whose answer it gets, what the response cache     *)
(* keeps and on which day a call is counted, for any number of             *)
(* deployments, accounts, requests and keys, and for every year.           *)
(***************************************************************************)
EXTENDS ScriptPool, QuotaTracker, RelayCoalesce, ResponseCache, TodayStats, SequenceTheorems, SumTheorems

(* Deployments *)

Scans == [phase : {"none", "scan", "done"}, many : BOOLEAN, want : Int, left : Int,
          picked : SUBSET Deployments, steady : SUBSET Deployments, shunned : SUBSET Deployments]

ScanTyped == sidx \in 0..(NScripts - 1) /\ stopped \subseteq Deployments /\ scan \in Scans

\* The i-th script a scan looks at from here.
Ahead(i) == ScriptIds[(IF sidx + i < NScripts THEN sidx + i ELSE sidx + i - NScripts) + 1]

\* While a scan runs: steady and shunned agree with the flags, nothing shunned
\* is taken, and a steady script is taken or still ahead.
ScanHonest ==
  scan.phase = "scan" =>
    /\ scan.left \in 0..NScripts
    /\ scan.steady \cap (Listed \cup stopped) = {} /\ scan.shunned \subseteq Listed \cup stopped
    /\ scan.picked \cap scan.shunned = {}
    /\ \A s \in scan.steady : s \in scan.picked \/ \E i \in 0..(scan.left - 1) : s = Ahead(i)

PickInv == ScanTyped /\ ScanHonest /\ AvailablePreferred

\* There is a deployment.
LEMMA NScriptsNat == NScripts \in Nat /\ NScripts >= 1
  BY ScriptAssumption DEF NScripts

\* The round robin stays in range.
LEMMA NextIndex ==
  ASSUME NEW n \in Nat, n >= 1, NEW x \in 0..(n - 1)
  PROVE  (x + 1) % n = IF x + 1 < n THEN x + 1 ELSE 0
  OBVIOUS

\* No scan has begun.
LEMMA PickInitial == ScriptInit => PickInv
  BY NScriptsNat DEF ScriptInit, NoScan, PickInv, ScanTyped, Scans, ScanHonest, AvailablePreferred

\* A scan begins.
LEMMA StartKeeps ==
  ASSUME PickInv, PickStart(FALSE, 1) \/ \E n \in 1..MaxFan : PickStart(TRUE, n)
  PROVE  PickInv'
<1>1. Listed \subseteq Deployments /\ stopped \subseteq Deployments /\ NScripts \in Int
  BY NScriptsNat DEF Listed, PickInv, ScanTyped
<1>2. /\ scan' \in Scans /\ scan'.phase = "scan" /\ scan'.left = NScripts /\ scan'.picked = {}
      /\ scan'.steady = Deployments \ (Listed \cup stopped) /\ scan'.shunned = Listed \cup stopped
      /\ UNCHANGED <<sidx, until, stopped>>
  <2>1. CASE PickStart(FALSE, 1) BY <1>1, <2>1 DEF PickStart, ScanLength, Scans
  <2>2. ASSUME NEW n \in 1..MaxFan, PickStart(TRUE, n) 
      PROVE  /\ scan' \in Scans /\ scan'.phase = "scan" /\ scan'.left = NScripts /\ scan'.picked = {}
             /\ scan'.steady = Deployments \ (Listed \cup stopped) /\ scan'.shunned = Listed \cup stopped
             /\ UNCHANGED <<sidx, until, stopped>>
    BY <1>1, <2>2 DEF PickStart, ScanLength, Scans
  <2> QED BY <2>1, <2>2
<1>3. ScanTyped' BY <1>1, <1>2 DEF PickInv, ScanTyped
<1>4. ASSUME NEW s \in Deployments PROVE \E i \in 0..(NScripts - 1) : s = Ahead(i)
  <2>1. PICK j \in 1..NScripts : s = ScriptIds[j] BY DEF Deployments, NScripts
  <2> DEFINE i == IF j - 1 >= sidx THEN j - 1 - sidx ELSE j - 1 - sidx + NScripts
  <2>2. i \in 0..(NScripts - 1) BY NScriptsNat DEF PickInv, ScanTyped
  <2>3. (IF sidx + i < NScripts THEN sidx + i ELSE sidx + i - NScripts) + 1 = j
    BY NScriptsNat DEF PickInv, ScanTyped
  <2> HIDE DEF i
  <2> QED BY <2>1, <2>2, <2>3 DEF Ahead
<1>5. ScanHonest'
  <2>1. \A s \in scan'.steady : \E i \in 0..(scan'.left - 1) : s = Ahead(i)' BY <1>2, <1>4 DEF Ahead
  <2>2. Listed' = Listed BY <1>2 DEF Listed
  <2> QED BY <1>2, <2>1, <2>2, NScriptsNat DEF ScanHonest
<1>6. AvailablePreferred' BY <1>2 DEF AvailablePreferred
<1> QED BY <1>3, <1>5, <1>6 DEF PickInv

\* One look: a usable script is taken, the others move one closer.
LEMMA LookKeeps ==
  ASSUME PickInv, PickStep
  PROVE  PickInv'
<1> DEFINE s == ScriptIds[sidx + 1]
           take == s \notin Listed \cup stopped \cup scan.picked
           got == IF take THEN scan.picked \cup {s} ELSE scan.picked
<1>1. /\ scan.phase = "scan" /\ scan.left > 0 /\ sidx' = (sidx + 1) % NScripts
      /\ scan' = [scan EXCEPT !.left = @ - 1, !.picked = got,
                              !.phase = IF Cardinality(got) = scan.want THEN "done" ELSE @]
      /\ UNCHANGED <<until, stopped>>
  BY DEF PickStep
<1>2. /\ scan \in Scans /\ sidx \in 0..(NScripts - 1) /\ scan.left \in 0..NScripts
      /\ NScripts \in Nat /\ NScripts >= 1
  BY <1>1, NScriptsNat DEF PickInv, ScanTyped, ScanHonest
<1>3. s \in Deployments BY <1>2 DEF Deployments, NScripts
<1>4. sidx' = IF sidx + 1 < NScripts THEN sidx + 1 ELSE 0 BY <1>1, <1>2, NextIndex
<1>5. s = Ahead(0) BY <1>2 DEF Ahead
<1>6. \A i \in 1..(scan.left - 1) : Ahead(i) = Ahead(i - 1)' BY <1>2, <1>4 DEF Ahead
<1>7. Listed' = Listed BY <1>1 DEF Listed
<1>8. got \in SUBSET Deployments /\ scan.picked \subseteq got BY <1>2, <1>3 DEF Scans
<1>9. got \cap scan.shunned = {} /\ (s \in scan.steady => s \in got)
  BY <1>1 DEF PickInv, ScanHonest
<1>10. \A t \in scan.steady : t \in got \/ \E i \in 0..(scan.left - 2) : t = Ahead(i)'
  <2> SUFFICES ASSUME NEW t \in scan.steady, t \notin got
               PROVE  \E i \in 0..(scan.left - 2) : t = Ahead(i)'
    OBVIOUS
  <2>1. PICK i \in 0..(scan.left - 1) : t = Ahead(i) BY <1>1, <1>8 DEF PickInv, ScanHonest
  <2>2. i # 0 BY <1>5, <1>9, <2>1
  <2>3. i - 1 \in 0..(scan.left - 2) /\ i \in 1..(scan.left - 1) BY <1>2, <2>2
  <2> QED BY <1>6, <2>1, <2>3
<1> HIDE DEF got
<1>11. /\ scan' \in Scans /\ scan'.left = scan.left - 1 /\ scan'.picked = got
       /\ scan'.steady = scan.steady /\ scan'.shunned = scan.shunned /\ scan'.want = scan.want
       /\ scan'.phase = "done" => Cardinality(got) = scan.want
  <2> DEFINE ph == IF Cardinality(got) = scan.want THEN "done" ELSE scan.phase
  <2>1. ph \in {"none", "scan", "done"} /\ (ph = "done" => Cardinality(got) = scan.want)
    BY <1>1
  <2>2. scan' = [scan EXCEPT !.left = scan.left - 1, !.picked = got, !.phase = ph]
    BY <1>1, <1>2 DEF Scans
  <2>3. scan.left - 1 \in Int BY <1>2
  <2> HIDE DEF ph
  <2> QED BY <1>2, <1>8, <2>1, <2>2, <2>3 DEF Scans
<1>12. ScanTyped' BY <1>1, <1>2, <1>4, <1>11 DEF PickInv, ScanTyped
<1>13. ScanHonest'
  <2>1. scan'.left \in 0..NScripts /\ scan'.left - 1 = scan.left - 2 BY <1>1, <1>2, <1>11
  <2>2. \A t \in scan'.steady : t \in scan'.picked \/ \E i \in 0..(scan'.left - 1) : t = Ahead(i)'
    BY <1>10, <1>11, <2>1
  <2> QED BY <1>1, <1>7, <1>9, <1>11, <2>1, <2>2 DEF PickInv, ScanHonest
<1>14. AvailablePreferred' BY <1>9, <1>11 DEF AvailablePreferred
<1> QED BY <1>12, <1>13, <1>14 DEF PickInv

\* The end of a scan that did not find enough: every steady script was taken.
LEMMA ScanEndKeeps ==
  ASSUME PickInv, PickFallback \/ PickManyEnds \/ PickReturn
  PROVE  PickInv'
<1>1. ScriptIds[1] \in Deployments BY NScriptsNat DEF Deployments, NScripts
<1>2. CASE PickReturn
  <2>1. scan' = NoScan /\ UNCHANGED <<sidx, stopped>> BY <1>2 DEF PickReturn
  <2>2. NoScan \in Scans /\ NoScan.phase = "none" BY DEF NoScan, Scans
  <2> QED BY <2>1, <2>2 DEF PickInv, ScanTyped, ScanHonest, AvailablePreferred
<1>3. CASE PickFallback \/ PickManyEnds
  <2>1. scan.phase = "scan" /\ scan.left = 0 /\ UNCHANGED <<sidx, stopped>>
    BY <1>3 DEF PickFallback, PickManyEnds
  <2>2. scan.steady \subseteq scan.picked BY <2>1 DEF PickInv, ScanHonest
  <2>3. scan \in Scans BY DEF PickInv, ScanTyped
  <2>4. PICK p \in SUBSET Deployments : /\ scan' = [scan EXCEPT !.phase = "done", !.picked = p]
                                        /\ p = scan.picked \/ scan.picked = {}
    <3>1. CASE PickManyEnds
      <4> DEFINE p == IF scan.picked = {} THEN {ScriptIds[1]} ELSE scan.picked
      <4>1. scan' = [scan EXCEPT !.phase = "done", !.picked = p] BY <3>1 DEF PickManyEnds
      <4>2. p \in SUBSET Deployments /\ (p = scan.picked \/ scan.picked = {}) BY <1>1, <2>3 DEF Scans
      <4> QED BY <4>1, <4>2
    <3>2. CASE PickFallback
      <4>1. \E s \in Deployments : scan' = [scan EXCEPT !.phase = "done", !.picked = {s}]
        BY <1>1, <3>2 DEF PickFallback, Soonest, Listed
      <4>2. scan.picked = {} BY <3>2 DEF PickFallback
      <4>3. \A s \in Deployments : {s} \in SUBSET Deployments OBVIOUS
      <4> QED BY <4>1, <4>2, <4>3
    <3> QED BY <1>3, <3>1, <3>2
  <2>5. scan' \in Scans /\ scan'.phase = "done" /\ scan'.steady = scan.steady /\ scan'.picked = p
    BY <2>3, <2>4 DEF Scans
  <2>6. scan'.steady \subseteq scan'.picked BY <2>2, <2>4, <2>5
  <2> QED BY <2>1, <2>5, <2>6 DEF PickInv, ScanTyped, ScanHonest, AvailablePreferred
<1> QED BY <1>2, <1>3

\* The blacklist does not move during a scan.
LEMMA BlacklistKeeps ==
  ASSUME PickInv, Tick \/ \E s \in Deployments : BlacklistScript(s) \/ TimeoutStrike(s) \/ StrikesCleared(s)
  PROVE  PickInv'
<1>1. UNCHANGED <<sidx, stopped, scan>> /\ (UNCHANGED until \/ scan.phase # "scan")
  BY DEF Tick, BlacklistScript, TimeoutStrike, StrikesCleared, BlacklistFree
<1>2. scan.phase = "scan" => Listed' = Listed BY <1>1 DEF Listed
<1>3. \A i : Ahead(i)' = Ahead(i) BY <1>1 DEF Ahead
<1> QED BY <1>1, <1>2, <1>3 DEF PickInv, ScanTyped, ScanHonest, AvailablePreferred

\* A flag that flips between two looks takes its script out of steady or shunned.
LEMMA FlipKeeps ==
  ASSUME PickInv, NEW s \in Deployments, QuotaFlips(s)
  PROVE  PickInv'
<1>1. /\ stopped' = (IF s \in stopped THEN stopped \ {s} ELSE stopped \cup {s})
      /\ UNCHANGED <<sidx, until>>
  BY DEF QuotaFlips
<1>2. scan \in Scans /\ Listed' = Listed /\ \A i : Ahead(i)' = Ahead(i)
  BY <1>1 DEF PickInv, ScanTyped, Listed, Ahead
<1>3. CASE scan.phase # "scan"
  <2>1. scan' = scan BY <1>3 DEF QuotaFlips
  <2> QED BY <1>1, <1>3, <2>1 DEF PickInv, ScanTyped, ScanHonest, AvailablePreferred
<1>4. CASE scan.phase = "scan"
  <2>1. scan' = [scan EXCEPT !.steady = @ \ {s}, !.shunned = IF s \in Listed THEN @ ELSE @ \ {s}]
    BY <1>4 DEF QuotaFlips
  <2>2. /\ scan' \in Scans /\ scan'.phase = "scan" /\ scan'.left = scan.left /\ scan'.picked = scan.picked
        /\ scan'.steady = scan.steady \ {s} /\ scan'.shunned \subseteq scan.shunned
        /\ s \notin Listed => s \notin scan'.shunned
    BY <1>2, <1>4, <2>1 DEF Scans
  <2>3. ScanTyped' BY <1>1, <2>2 DEF PickInv, ScanTyped
  <2>4. ScanHonest' BY <1>1, <1>2, <1>4, <2>2 DEF PickInv, ScanHonest
  <2>5. AvailablePreferred' BY <2>2 DEF AvailablePreferred
  <2> QED BY <2>3, <2>4, <2>5 DEF PickInv
<1> QED BY <1>3, <1>4

\* Every step of the pool.
LEMMA PickNextStep == PickInv /\ [ScriptNext]_poolScriptVars => PickInv'
<1> SUFFICES ASSUME PickInv, [ScriptNext]_poolScriptVars PROVE PickInv'
  OBVIOUS
<1>1. CASE UNCHANGED poolScriptVars
  BY <1>1 DEF poolScriptVars, PickInv, ScanTyped, ScanHonest, AvailablePreferred, Listed, Ahead
<1>2. CASE ScriptNext
  BY <1>2, StartKeeps, LookKeeps, ScanEndKeeps, BlacklistKeeps, FlipKeeps DEF ScriptNext
<1> QED BY <1>1, <1>2

\* A deployment that is usable throughout a pick is never passed over for one
\* that is not, for any list of deployments (an id may be in it several times), any
\* number of picks and flags that other tasks set and clear between the reads of
\* next_script_id and next_script_ids.
THEOREM UsableScriptsPreferred == ScriptSpec => []AvailablePreferred
<1>1. PickInv => AvailablePreferred BY DEF PickInv
<1> QED BY <1>1, PickInitial, PickNextStep, PTL DEF ScriptSpec

-----------------------------------------------------------------------------
(* Quota *)

QuotaSteps == {"idle", "picked", "passed", "flight", "saving"}
Buckets == [used : Nat, stop : BOOLEAN, window : {"none", "open", "over"}, errors : 0..1]

QuotaTyped ==
  /\ bucket \in [Accounts -> Buckets] /\ file \in [Accounts -> Buckets]
  /\ qpc \in [Dispatchers -> QuotaSteps] /\ qacct \in [Dispatchers -> Accounts \cup {NoAccount}]
  /\ \A d \in Dispatchers : qpc[d] # "idle" => qacct[d] \in Accounts
  /\ marked \subseteq Accounts

\* The attempts that are past the check of a and have not charged it.
Passed(a) == {d \in Dispatchers : qpc[d] = "passed" /\ qacct[d] = a}

Allowed == DailyLimit - SafetyBuffer

\* An account that is not stopped is within its allowance, and the charges
\* still to come are one for each attempt past the check.
ChargesBounded ==
  \A a \in Accounts :
    /\ ~bucket[a].stop => bucket[a].used <= Allowed
    /\ bucket[a].used + Cardinality(Passed(a)) <= Allowed + Cardinality(Dispatchers)
    /\ file[a].used <= Allowed + Cardinality(Dispatchers)

\* What mark_exhausted returned for is stopped, and is in a file that was written
\* whole.
MarksSaved == \A a \in marked : bucket[a].stop /\ (intact => file[a].stop)

QuotaInv == QuotaTyped /\ MarksSaved /\ (SafetyBuffer > 0 => ChargesBounded)

\* A fresh bucket.
LEMMA FreshFacts ==
  /\ Fresh0 \in Buckets /\ Fresh0.used = 0 /\ Fresh0.stop = FALSE
  /\ [Fresh0 EXCEPT !.window = "open"] \in Buckets
  /\ [Fresh0 EXCEPT !.window = "open"].used = 0
<1>1. Fresh0 \in Buckets BY DEF Fresh0, Buckets
<1>2. Fresh0.used = 0 /\ Fresh0.stop = FALSE BY DEF Fresh0
<1>3. [Fresh0 EXCEPT !.window = "open"] \in Buckets BY <1>1 DEF Buckets
<1>4. [Fresh0 EXCEPT !.window = "open"].used = 0 BY <1>1, <1>2 DEF Buckets
<1> QED BY <1>1, <1>2, <1>3, <1>4

\* A bucket whose window is over starts again.
LEMMA RolledFacts ==
  ASSUME NEW b \in Buckets
  PROVE  /\ Rolled(b) \in Buckets
         /\ b.window = "over" => Rolled(b).used = 0
         /\ b.window # "over" => Rolled(b) = b
  BY FreshFacts DEF Rolled

\* What a charge does to a bucket.
LEMMA ChargedFacts ==
  ASSUME NEW b \in Buckets
  PROVE  /\ Charged(b) \in Buckets
         /\ b.window # "over" => Charged(b).used = b.used + 1 /\ (b.stop => Charged(b).stop)
         /\ b.window = "over" => Charged(b).used = 1
         /\ SafetyBuffer > 0 /\ ~Charged(b).stop => Charged(b).used <= Allowed
<1> DEFINE w == IF b.window = "none" THEN [b EXCEPT !.window = "open"] ELSE Rolled(b)
<1>1. /\ w \in Buckets
      /\ b.window # "over" => w.used = b.used /\ w.stop = b.stop
      /\ b.window = "over" => w.used = 0
  <2>1. CASE b.window = "none" BY <2>1 DEF Buckets
  <2>2. CASE b.window # "none" BY <2>2, RolledFacts
  <2> QED BY <2>1, <2>2
<1> DEFINE low == SaturatingSub(DailyLimit, w.used + 1) < SafetyBuffer
<1>2. Charged(b) = [w EXCEPT !.used = @ + 1, !.stop = IF low THEN TRUE ELSE @]
  BY DEF Charged
<1>3. SafetyBuffer > 0 /\ ~low => w.used + 1 <= Allowed
  BY <1>1, QuotaAssumption DEF SaturatingSub, Allowed, Buckets
<1> HIDE DEF w, low
<1>4. /\ Charged(b) \in Buckets /\ Charged(b).used = w.used + 1
      /\ Charged(b).stop = IF low THEN TRUE ELSE w.stop
  <2>1. w.used + 1 \in Nat /\ w.stop \in BOOLEAN BY <1>1 DEF Buckets
  <2>2. CASE low
    <3>1. Charged(b) = [w EXCEPT !.used = @ + 1, !.stop = TRUE] BY <1>2, <2>2
    <3> QED BY <1>1, <2>1, <2>2, <3>1 DEF Buckets
  <2>3. CASE ~low
    <3>1. Charged(b) = [w EXCEPT !.used = @ + 1] BY <1>1, <1>2, <2>3 DEF Buckets
    <3> QED BY <1>1, <2>1, <2>3, <3>1 DEF Buckets
  <2> QED BY <2>2, <2>3
<1> QED BY <1>1, <1>3, <1>4 DEF Buckets

\* What load makes of a bucket.
LEMMA PrecheckedFacts ==
  ASSUME NEW b \in Buckets
  PROVE  /\ Prechecked(b) \in Buckets /\ Prechecked(b).used = b.used
         /\ b.stop => Prechecked(b).stop
         /\ SafetyBuffer > 0 /\ ~Prechecked(b).stop => b.used <= Allowed
<1> DEFINE low == SaturatingSub(DailyLimit, b.used) < SafetyBuffer
<1>1. SafetyBuffer > 0 /\ ~low => b.used <= Allowed
  BY QuotaAssumption DEF SaturatingSub, Allowed, Buckets
<1>2. Prechecked(b) = [b EXCEPT !.stop = IF low THEN TRUE ELSE @] BY DEF Prechecked
<1> HIDE DEF low
<1>3. /\ Prechecked(b) \in Buckets /\ Prechecked(b).used = b.used
      /\ Prechecked(b).stop = IF low THEN TRUE ELSE b.stop
  BY <1>2 DEF Buckets
<1> QED BY <1>1, <1>3 DEF Buckets

\* At most all dispatchers are past the check.
LEMMA PassedFacts ==
  ASSUME NEW a
  PROVE  /\ Cardinality(Dispatchers) \in Nat
         /\ IsFiniteSet(Passed(a)) /\ Cardinality(Passed(a)) \in Nat
         /\ Cardinality(Passed(a)) <= Cardinality(Dispatchers)
  BY QuotaAssumption, FS_Subset, FS_CardinalityType DEF Passed

\* Nothing is charged at the start.
LEMMA QuotaInitial == QuotaInit => QuotaInv
<1> SUFFICES ASSUME QuotaInit PROVE QuotaInv OBVIOUS
<1>1. QuotaTyped /\ MarksSaved
  BY FreshFacts DEF QuotaInit, QuotaTyped, QuotaSteps, MarksSaved, NoAccount
<1>2. ChargesBounded
  <2>1. \A a \in Accounts : bucket[a].used = 0 /\ file[a].used = 0 BY FreshFacts DEF QuotaInit
  <2> QED BY <2>1, PassedFacts, QuotaAssumption DEF ChargesBounded, Allowed
<1> QED BY <1>1, <1>2 DEF QuotaInv

\* The bound follows when no bucket grows, one that is not stopped stays in its
\* allowance, and an attempt passes the check only of an account in its allowance.
LEMMA BoundFrame ==
  ASSUME QuotaTyped, ChargesBounded, QuotaTyped',
         \A a \in Accounts :
           /\ bucket'[a].used <= bucket[a].used
           /\ ~bucket'[a].stop => bucket'[a].used <= Allowed
           /\ file'[a].used \in {0, file[a].used, bucket[a].used}
           /\ Passed(a)' \subseteq Passed(a) \/ bucket'[a].used <= Allowed
  PROVE  ChargesBounded'
<1> SUFFICES ASSUME NEW a \in Accounts
             PROVE  /\ ~bucket'[a].stop => bucket'[a].used <= Allowed
                    /\ bucket'[a].used + Cardinality(Passed(a)') <= Allowed + Cardinality(Dispatchers)
                    /\ file'[a].used <= Allowed + Cardinality(Dispatchers)
  BY DEF ChargesBounded, Allowed
<1>1. /\ Cardinality(Dispatchers) \in Nat /\ Cardinality(Passed(a)) \in Nat
      /\ IsFiniteSet(Passed(a)) /\ Allowed \in Nat
  BY PassedFacts, QuotaAssumption DEF Allowed
<1>2. Cardinality(Passed(a)') \in Nat /\ Cardinality(Passed(a)') <= Cardinality(Dispatchers)
  BY QuotaAssumption, FS_Subset, FS_CardinalityType DEF Passed
<1>3. Passed(a)' \subseteq Passed(a) => Cardinality(Passed(a)') <= Cardinality(Passed(a))
  BY <1>1, FS_Subset
<1>4. bucket[a].used \in Nat /\ file[a].used \in Nat /\ bucket'[a].used \in Nat
  BY DEF QuotaTyped, Buckets
<1>5. /\ bucket[a].used + Cardinality(Passed(a)) <= Allowed + Cardinality(Dispatchers)
      /\ file[a].used <= Allowed + Cardinality(Dispatchers)
  BY DEF ChargesBounded
<1> QED BY <1>1, <1>2, <1>3, <1>4, <1>5

\* Steps of an attempt that change no bucket.
LEMMA CheckKeeps ==
  ASSUME QuotaInv, NEW d \in Dispatchers, PickAccount(d) \/ PassCheck(d) \/ AttemptEnds(d)
  PROVE  QuotaInv'
<1>1. UNCHANGED <<bucket, file, intact, marked>> BY DEF PickAccount, PassCheck, AttemptEnds
<1>2. PICK p \in QuotaSteps, a \in Accounts \cup {NoAccount} :
        /\ qpc' = [qpc EXCEPT ![d] = p] /\ qacct' = [qacct EXCEPT ![d] = a]
        /\ p # "idle" => a \in Accounts
        /\ p = "passed" => ~bucket[a].stop
  BY DEF PickAccount, PassCheck, AttemptEnds, Done, AtStep, QuotaInv, QuotaTyped, QuotaSteps
<1>3. QuotaTyped' BY <1>1, <1>2 DEF QuotaInv, QuotaTyped
<1>4. MarksSaved' BY <1>1 DEF QuotaInv, MarksSaved
<1>5. ASSUME ChargesBounded PROVE ChargesBounded'
  <2>1. \A b \in Accounts : Passed(b)' \subseteq Passed(b) \/ ~bucket[b].stop
    BY <1>2 DEF Passed, QuotaInv, QuotaTyped
  <2>2. \A b \in Accounts : bucket[b].used \in Nat BY DEF QuotaInv, QuotaTyped, Buckets
  <2> QED BY <1>1, <1>3, <1>5, <2>1, <2>2, BoundFrame DEF QuotaInv, ChargesBounded
<1> QED BY <1>3, <1>4, <1>5 DEF QuotaInv

\* The charge: one attempt less past the check, one request more.
LEMMA ChargeKeeps ==
  ASSUME QuotaInv, NEW d \in Dispatchers, RecordAttempt(d)
  PROVE  QuotaInv'
<1> DEFINE a == qacct[d]
<1>1. /\ qpc[d] = "passed" /\ qpc' = [qpc EXCEPT ![d] = "flight"]
      /\ bucket' = [bucket EXCEPT ![a] = Charged(bucket[a])]
      /\ marked' = {b \in marked : ~(b \in {a} /\ bucket[b].window = "over")}
      /\ UNCHANGED <<file, intact, qacct>>
  BY DEF RecordAttempt, AtStep, Roll
<1>2. a \in Accounts /\ bucket[a] \in Buckets BY <1>1 DEF QuotaInv, QuotaTyped
<1> HIDE DEF a
<1>3. QuotaTyped' BY <1>1, <1>2, ChargedFacts DEF QuotaInv, QuotaTyped, QuotaSteps
<1>4. MarksSaved' BY <1>1, <1>2, ChargedFacts DEF QuotaInv, MarksSaved, QuotaTyped
<1>5. ASSUME ChargesBounded, SafetyBuffer > 0 PROVE ChargesBounded'
  <2> SUFFICES ASSUME NEW b \in Accounts
               PROVE  /\ ~bucket'[b].stop => bucket'[b].used <= Allowed
                      /\ bucket'[b].used + Cardinality(Passed(b)') <= Allowed + Cardinality(Dispatchers)
                      /\ file'[b].used <= Allowed + Cardinality(Dispatchers)
    BY DEF ChargesBounded, Allowed
  <2>1. /\ Cardinality(Dispatchers) \in Nat /\ Cardinality(Passed(b)) \in Nat
        /\ IsFiniteSet(Passed(b)) /\ Allowed \in Nat
        /\ Cardinality(Passed(b)) <= Cardinality(Dispatchers)
    BY PassedFacts, QuotaAssumption DEF Allowed
  <2>2. /\ bucket[b].used \in Nat /\ file[b].used \in Nat
        /\ ~bucket[b].stop => bucket[b].used <= Allowed
        /\ bucket[b].used + Cardinality(Passed(b)) <= Allowed + Cardinality(Dispatchers)
        /\ file[b].used <= Allowed + Cardinality(Dispatchers)
    BY <1>5 DEF ChargesBounded, QuotaInv, QuotaTyped, Buckets
  <2>3. Passed(b)' = Passed(b) \ {d} BY <1>1 DEF Passed, QuotaInv, QuotaTyped
  <2>4. CASE b = a
    <3>1. d \in Passed(b) BY <1>1, <2>4 DEF Passed, a
    <3>2. Cardinality(Passed(b)') = Cardinality(Passed(b)) - 1 BY <2>1, <2>3, <3>1, FS_RemoveElement
    <3>3. bucket'[b] = Charged(bucket[b]) BY <1>1, <1>2, <2>4 DEF QuotaInv, QuotaTyped
    <3>4. /\ ~bucket'[b].stop => bucket'[b].used <= Allowed
          /\ bucket'[b].used \in {1, bucket[b].used + 1}
      BY <1>2, <1>5, <2>4, <3>3, ChargedFacts
    <3> QED BY <1>1, <2>1, <2>2, <3>2, <3>4
  <2>5. CASE b # a
    <3>1. d \notin Passed(b) BY <2>5 DEF Passed, a
    <3>2. Passed(b)' = Passed(b) BY <2>3, <3>1
    <3>3. bucket'[b] = bucket[b] BY <1>1, <2>5 DEF QuotaInv, QuotaTyped
    <3> QED BY <1>1, <2>1, <2>2, <3>2, <3>3
  <2> QED BY <2>4, <2>5
<1> QED BY <1>3, <1>4, <1>5 DEF QuotaInv

\* A late quota error sets flags of the account and never clears its stop.
LEMMA ErrorKeeps ==
  ASSUME QuotaInv, NEW d \in Dispatchers, QuotaFailure(d) \/ MarkExhausted(d)
  PROVE  QuotaInv'
<1> DEFINE a == qacct[d]
<1>1. /\ qpc[d] \in {"flight", "saving"}
      /\ \/ bucket' = [bucket EXCEPT ![a].errors = 1] /\ qpc' = [qpc EXCEPT ![d] = "saving"]
         \/ bucket' = [bucket EXCEPT ![a].stop = TRUE] /\ UNCHANGED qpc
      /\ UNCHANGED <<file, intact, qacct, marked>>
  BY DEF QuotaFailure, MarkExhausted, AtStep
<1>2. a \in Accounts /\ bucket \in [Accounts -> Buckets] BY <1>1 DEF QuotaInv, QuotaTyped
<1> HIDE DEF a
<1>3. /\ bucket' \in [Accounts -> Buckets]
      /\ \A b \in Accounts : bucket'[b].used = bucket[b].used /\ (bucket[b].stop => bucket'[b].stop)
  <2>1. CASE bucket' = [bucket EXCEPT ![a].errors = 1] BY <1>2, <2>1 DEF Buckets
  <2>2. CASE bucket' = [bucket EXCEPT ![a].stop = TRUE] BY <1>2, <2>2 DEF Buckets
  <2> QED BY <1>1, <2>1, <2>2
<1>4. QuotaTyped' BY <1>1, <1>2, <1>3 DEF QuotaInv, QuotaTyped, QuotaSteps, a
<1>5. MarksSaved' BY <1>1, <1>3 DEF QuotaInv, MarksSaved, QuotaTyped
<1>6. ASSUME ChargesBounded PROVE ChargesBounded'
  <2>1. \A b \in Accounts : Passed(b)' \subseteq Passed(b) BY <1>1 DEF Passed, QuotaInv, QuotaTyped
  <2>2. \A b \in Accounts : bucket[b].used \in Nat BY <1>2 DEF Buckets
  <2> QED BY <1>1, <1>3, <1>4, <1>6, <2>1, <2>2, BoundFrame DEF QuotaInv, ChargesBounded
<1> QED BY <1>4, <1>5, <1>6 DEF QuotaInv

\* A save copies the buckets or fails; mark_exhausted returns when it has ended.
LEMMA SaveKeeps ==
  ASSUME QuotaInv, SaveEnds \/ SaveIfNeeded \/ ClearDirty
  PROVE  QuotaInv'
<1>1. /\ UNCHANGED bucket /\ file' \in {file, Lost, bucket}
      /\ \/ UNCHANGED <<file, intact>>
         \/ intact' => file' = bucket
  BY DEF SaveEnds, SaveIfNeeded, ClearDirty
<1>2. \/ UNCHANGED <<qpc, qacct, marked>>
      \/ \E d \in Dispatchers :
           /\ qpc[d] = "saving" /\ bucket[qacct[d]].stop /\ (intact' => file' = bucket)
           /\ marked' = marked \cup {qacct[d]}
           /\ qpc' = [qpc EXCEPT ![d] = "idle"] /\ qacct' = [qacct EXCEPT ![d] = NoAccount]
  BY DEF SaveEnds, SaveIfNeeded, ClearDirty, Done, AtStep
<1>0. Lost \in [Accounts -> Buckets] /\ \A a \in Accounts : Lost[a].used = 0
  BY FreshFacts DEF Lost
<1>3. QuotaTyped' BY <1>0, <1>1, <1>2 DEF QuotaInv, QuotaTyped, QuotaSteps
<1>4. MarksSaved' BY <1>1, <1>2 DEF QuotaInv, MarksSaved, QuotaTyped
<1>5. ASSUME ChargesBounded PROVE ChargesBounded'
  <2>1. \A b \in Accounts : Passed(b)' \subseteq Passed(b) BY <1>2 DEF Passed, QuotaInv, QuotaTyped
  <2>2. \A b \in Accounts : bucket[b].used \in Nat BY DEF QuotaInv, QuotaTyped, Buckets
  <2>3. \A b \in Accounts : file'[b].used \in {0, file[b].used, bucket[b].used} BY <1>0, <1>1
  <2> QED BY <1>1, <1>3, <1>5, <2>1, <2>2, <2>3, BoundFrame DEF QuotaInv, ChargesBounded
<1> QED BY <1>3, <1>4, <1>5 DEF QuotaInv

\* A window that ends, and the roll that starts the account again from zero and
\* takes its mark away.
LEMMA WindowKeeps ==
  ASSUME QuotaInv, RollExpiredWindows \/ \E a \in Accounts : WindowOver(a)
  PROVE  QuotaInv'
<1>0. bucket \in [Accounts -> Buckets] /\ file \in [Accounts -> Buckets] BY DEF QuotaInv, QuotaTyped
<1>1. UNCHANGED <<intact, qpc, qacct>> BY DEF RollExpiredWindows, WindowOver
<1>2. /\ bucket' \in [Accounts -> Buckets] /\ file' \in [Accounts -> Buckets] /\ marked' \subseteq marked
      /\ \A b \in Accounts :
           /\ file'[b].used = file[b].used /\ file'[b].stop = file[b].stop
           /\ \/ bucket'[b].used = bucket[b].used /\ bucket'[b].stop = bucket[b].stop
              \/ bucket'[b].used = 0 /\ b \notin marked'
  <2>1. CASE RollExpiredWindows
    BY <1>0, <2>1, RolledFacts DEF RollExpiredWindows, Roll
  <2>2. CASE \E a \in Accounts : WindowOver(a)
    BY <1>0, <2>2, SMTT(20) DEF WindowOver, Buckets
  <2> QED BY <2>1, <2>2
<1>3. QuotaTyped' BY <1>1, <1>2 DEF QuotaInv, QuotaTyped
<1>4. MarksSaved' BY <1>1, <1>2 DEF QuotaInv, MarksSaved, QuotaTyped
<1>5. ASSUME ChargesBounded PROVE ChargesBounded'
  <2>1. \A b \in Accounts : Passed(b)' = Passed(b) BY <1>1 DEF Passed
  <2>2. \A b \in Accounts : bucket[b].used \in Nat /\ Allowed \in Nat
    BY <1>0, QuotaAssumption DEF Buckets, Allowed
  <2>3. \A b \in Accounts : bucket'[b].used <= bucket[b].used BY <1>2, <2>2
  <2>4. \A b \in Accounts : ~bucket'[b].stop => bucket'[b].used <= Allowed
    BY <1>2, <1>5, <2>2 DEF ChargesBounded
  <2> QED BY <1>2, <1>3, <1>5, <2>1, <2>3, <2>4, BoundFrame DEF QuotaInv
<1> QED BY <1>3, <1>4, <1>5 DEF QuotaInv

\* A restart begins from what the file holds, checked against the reserve.
LEMMA CrashKeeps ==
  ASSUME QuotaInv, CrashAndLoad
  PROVE  QuotaInv'
<1>1. /\ bucket' = [a \in Accounts |-> Prechecked(file'[a])]
      /\ file' \in {file, Lost, bucket} /\ (intact' => intact /\ file' = file)
      /\ marked' = {a \in marked : bucket'[a].stop}
      /\ qpc' = [d \in Dispatchers |-> "idle"] /\ qacct' = [d \in Dispatchers |-> NoAccount]
  BY DEF CrashAndLoad, AfterCrash
<1>2. file' \in [Accounts -> Buckets] BY <1>1, FreshFacts DEF QuotaInv, QuotaTyped, Lost
<1>3. ASSUME NEW a \in Accounts
      PROVE  /\ bucket'[a] \in Buckets /\ bucket'[a].used = file'[a].used
             /\ SafetyBuffer > 0 /\ ~bucket'[a].stop => bucket'[a].used <= Allowed
  BY <1>1, <1>2, PrecheckedFacts
<1>4. QuotaTyped'
  BY <1>1, <1>2, <1>3 DEF QuotaInv, QuotaTyped, QuotaSteps, NoAccount
<1>5. MarksSaved' BY <1>1 DEF QuotaInv, MarksSaved, QuotaTyped
<1>6. ASSUME ChargesBounded, SafetyBuffer > 0 PROVE ChargesBounded'
  <2> SUFFICES ASSUME NEW a \in Accounts
               PROVE  /\ ~bucket'[a].stop => bucket'[a].used <= Allowed
                      /\ bucket'[a].used + Cardinality(Passed(a)') <= Allowed + Cardinality(Dispatchers)
                      /\ file'[a].used <= Allowed + Cardinality(Dispatchers)
    BY DEF ChargesBounded, Allowed
  <2>1. Passed(a)' = {} BY <1>1 DEF Passed
  <2>2. Cardinality(Passed(a)') = 0 BY <2>1, FS_EmptySet
  <2>3. Cardinality(Dispatchers) \in Nat /\ Allowed \in Nat BY PassedFacts, QuotaAssumption DEF Allowed
  <2>4. file'[a].used \in Nat /\ file'[a].used <= Allowed + Cardinality(Dispatchers)
    <3>1. file'[a].used \in {0, file[a].used, bucket[a].used} BY <1>1, FreshFacts DEF Lost
    <3>2. /\ file[a].used <= Allowed + Cardinality(Dispatchers) /\ bucket[a].used \in Nat
          /\ bucket[a].used + Cardinality(Passed(a)) <= Allowed + Cardinality(Dispatchers)
      BY <1>6 DEF ChargesBounded, QuotaInv, QuotaTyped, Buckets
    <3>3. file'[a].used \in Nat BY <1>2 DEF Buckets
    <3> QED BY <2>3, <3>1, <3>2, <3>3, PassedFacts
  <2> QED BY <1>3, <1>6, <2>2, <2>3, <2>4
<1> QED BY <1>4, <1>5, <1>6 DEF QuotaInv

\* Every step of the tracker.
LEMMA QuotaStep == QuotaInv /\ [QuotaNext]_quotavars => QuotaInv'
<1> SUFFICES ASSUME QuotaInv, [QuotaNext]_quotavars PROVE QuotaInv'
  OBVIOUS
<1>1. CASE UNCHANGED quotavars
  BY <1>1 DEF quotavars, QuotaInv, QuotaTyped, MarksSaved, ChargesBounded, Passed
<1>2. CASE QuotaNext
  BY <1>2, CheckKeeps, ChargeKeeps, ErrorKeeps, SaveKeeps, WindowKeeps, CrashKeeps DEF QuotaNext
<1> QED BY <1>1, <1>2

\* However many attempts pass the check before they charge, an account is charged
\* at most one request per dispatcher beyond daily_limit - safety_buffer, through
\* saves, windows and crashes. With a buffer of 0 the tracker never stops an
\* account by itself.
THEOREM ReserveIsKept == ASSUME SafetyBuffer > 0 PROVE QuotaSpec => []ReserveKept
<1>1. QuotaInv => ReserveKept
  <2> SUFFICES ASSUME QuotaInv, NEW a \in Accounts
               PROVE  bucket[a].used <= DailyLimit - SafetyBuffer + Cardinality(Dispatchers)
    BY DEF ReserveKept
  <2>1. /\ Cardinality(Dispatchers) \in Nat /\ Cardinality(Passed(a)) \in Nat /\ Allowed \in Nat
    BY PassedFacts, QuotaAssumption DEF Allowed
  <2>2. bucket[a].used \in Nat /\ bucket[a].used + Cardinality(Passed(a)) <= Allowed + Cardinality(Dispatchers)
    BY DEF QuotaInv, QuotaTyped, ChargesBounded, Buckets
  <2> QED BY <2>1, <2>2 DEF Allowed
<1> QED BY <1>1, QuotaInitial, QuotaStep, PTL DEF QuotaSpec

\* The number of crashes.
LEMMA CrashCount ==
  /\ QuotaInit => crashes \in Nat
  /\ crashes \in Nat /\ [QuotaNext]_quotavars => crashes' \in Nat
<1>1. QuotaInit => crashes \in Nat BY DEF QuotaInit
<1>2. ASSUME [QuotaNext]_quotavars PROVE crashes' \in {crashes, crashes + 1}
  BY <1>2 DEF QuotaNext, quotavars, PickAccount, PassCheck, RecordAttempt, AttemptEnds, QuotaFailure,
    MarkExhausted, SaveEnds, SaveIfNeeded, ClearDirty, RollExpiredWindows, CrashAndLoad, WindowOver
<1> QED BY <1>1, <1>2

\* A mark goes only with its window, or with a file that was not there whole.
LEMMA MarkHolds == QuotaInv /\ crashes \in Nat /\ QuotaNext => FreedOnlyBy
<1> SUFFICES ASSUME QuotaInv, crashes \in Nat, QuotaNext, NEW a \in marked, ~bucket'[a].stop
             PROVE  \/ bucket[a].window = "over"
                    \/ crashes' # crashes /\ ~(intact /\ Unlocked)
  BY DEF FreedOnlyBy
<1>1. /\ a \in Accounts /\ bucket \in [Accounts -> Buckets] /\ bucket[a].stop
      /\ file \in [Accounts -> Buckets] /\ (intact => file[a].stop)
      /\ \A d \in Dispatchers : qpc[d] # "idle" => qacct[d] \in Accounts
  BY DEF QuotaInv, QuotaTyped, MarksSaved
<1>2. CASE \E d \in Dispatchers : PickAccount(d) \/ PassCheck(d) \/ AttemptEnds(d)
  BY <1>1, <1>2 DEF PickAccount, PassCheck, AttemptEnds
<1>3. CASE SaveEnds \/ SaveIfNeeded \/ ClearDirty
  BY <1>1, <1>3 DEF SaveEnds, SaveIfNeeded, ClearDirty
<1>4. ASSUME NEW d \in Dispatchers, RecordAttempt(d) PROVE bucket[a].window = "over"
  <2>1. bucket' = [bucket EXCEPT ![qacct[d]] = Charged(bucket[qacct[d]])] BY <1>4 DEF RecordAttempt
  <2>2. a = qacct[d] /\ bucket[a] \in Buckets BY <1>1, <2>1
  <2>3. ~Charged(bucket[a]).stop BY <1>1, <2>1, <2>2
  <2> QED BY <1>1, <2>2, <2>3, ChargedFacts
<1>5. ASSUME NEW d \in Dispatchers, QuotaFailure(d) \/ MarkExhausted(d) PROVE FALSE
  <2>1. \/ bucket' = [bucket EXCEPT ![qacct[d]].errors = 1]
        \/ bucket' = [bucket EXCEPT ![qacct[d]].stop = TRUE]
    BY <1>5 DEF QuotaFailure, MarkExhausted
  <2> QED BY <1>1, <2>1 DEF Buckets
<1>6. CASE RollExpiredWindows
  <2>1. bucket'[a] = Rolled(bucket[a]) BY <1>1, <1>6 DEF RollExpiredWindows
  <2> QED BY <1>1, <2>1, RolledFacts
<1>7. ASSUME NEW b \in Accounts, WindowOver(b) PROVE FALSE
  BY <1>1, <1>7 DEF WindowOver, Buckets
<1>8. CASE CrashAndLoad
  <2> SUFFICES ASSUME intact, Unlocked PROVE FALSE
    BY <1>8 DEF CrashAndLoad
  <2>1. bucket'[a] = Prechecked(file[a]) BY <1>1, <1>8 DEF CrashAndLoad, AfterCrash
  <2> QED BY <1>1, <2>1, PrecheckedFacts
<1> QED BY <1>2, <1>3, <1>4, <1>5, <1>6, <1>7, <1>8 DEF QuotaNext

\* An account for which mark_exhausted has returned stays stopped for the rest of
\* its window, across any number of crashes and restarts, unless a crash tears
\* the file or the last save had failed: exactly what is left of the claim that
\* StopSurvivesCrash states.
THEOREM ExhaustedStaysStopped == QuotaSpec => StopOutlivesRestart
<1>1. QuotaInv /\ crashes \in Nat /\ [QuotaNext]_quotavars => [FreedOnlyBy]_quotavars BY MarkHolds
<1>2. QuotaInit => crashes \in Nat BY CrashCount
<1>3. crashes \in Nat /\ [QuotaNext]_quotavars => (crashes \in Nat)' BY CrashCount
<1> QED BY <1>1, <1>2, <1>3, QuotaInitial, QuotaStep, PTL DEF QuotaSpec, StopOutlivesRestart

-----------------------------------------------------------------------------
(* Coalesced answers *)

RelaySteps == {"new", "exit", "lookup", "join", "wait", "first", "second",
               "fan", "relayed", "publish", "answered"}

RelayTyped ==
  /\ rstep \in [Reqs -> RelaySteps] /\ answerOf \in [Reqs -> Bodies]
  /\ cached \in [Keys -> Reqs \cup {NoReq}] /\ inflight \in [Keys -> Reqs \cup {NoReq}]
  /\ channel \in [Reqs -> Bodies]

\* Two requests one answer may serve.
SameAnswer(r, q) == Coalescible(r) /\ q \in Reqs /\ Coalescible(q) /\ CacheKey(q) = CacheKey(r)

\* What is stored under a key belongs to it.
KeysHonest ==
  \A r \in Reqs : Coalescible(r) =>
    /\ cached[CacheKey(r)] # NoReq => SameAnswer(r, cached[CacheKey(r)])
    /\ inflight[CacheKey(r)] # NoReq => SameAnswer(r, inflight[CacheKey(r)])

\* What each step of a request holds, and what it publishes.
StepsHonest ==
  \A r \in Reqs :
    /\ channel[r] \in {NoReq, RelayFailed, r}
    /\ rstep[r] = "join" => Coalescible(r)
    /\ rstep[r] = "wait" => SameAnswer(r, answerOf[r])
    /\ rstep[r] \in {"relayed", "publish"} => answerOf[r] \in {r, RelayFailed}
    /\ rstep[r] = "answered" => answerOf[r] \in {r, RelayFailed} \/ SameAnswer(r, answerOf[r])

AnswerInv == RelayTyped /\ KeysHonest /\ StepsHonest

\* The marks are no requests.
LEMMA NotReqs == NoReq \notin Reqs /\ RelayFailed \notin Reqs
  BY RelayAssumption DEF NoReq, RelayFailed

\* The key of a request is a key.
LEMMA KeyOf == \A r \in Reqs : CacheKey(r) \in Keys
  BY DEF Keys

\* No request has begun.
LEMMA AnswerInitial == RelayInit => AnswerInv
  BY KeyOf DEF RelayInit, AnswerInv, RelayTyped, RelaySteps, Bodies, KeysHonest, StepsHonest

\* A step of r that leaves the shared maps alone.
LEMMA OwnKeeps ==
  ASSUME AnswerInv, NEW r \in Reqs, NEW s \in RelaySteps, NEW b \in Bodies,
         rstep' = [rstep EXCEPT ![r] = s], answerOf' = [answerOf EXCEPT ![r] = b],
         UNCHANGED <<cached, inflight, channel>>,
         s = "join" => Coalescible(r),
         s = "wait" => SameAnswer(r, b),
         s \in {"relayed", "publish"} => b \in {r, RelayFailed},
         s = "answered" => b \in {r, RelayFailed} \/ SameAnswer(r, b)
  PROVE  AnswerInv'
<1>1. RelayTyped' BY DEF AnswerInv, RelayTyped
<1>2. KeysHonest' BY DEF AnswerInv, KeysHonest, SameAnswer
<1>3. StepsHonest' BY DEF AnswerInv, StepsHonest, RelayTyped, SameAnswer
<1> QED BY <1>1, <1>2, <1>3 DEF AnswerInv

\* A step that leaves answerOf alone is one that writes it back.
LEMMA Kept == ASSUME RelayTyped, NEW r \in Reqs
              PROVE  answerOf[r] \in Bodies /\ answerOf = [answerOf EXCEPT ![r] = answerOf[r]]
  BY DEF RelayTyped

\* The exit node, before the cache.
LEMMA HeadKeeps ==
  ASSUME AnswerInv, NEW r \in Reqs,
         RelayStart(r) \/ ExitOk(r) \/ ExitFailsAfterH2(r) \/ ExitFails(r)
  PROVE  AnswerInv'
<1>1. \E s \in {"exit", "lookup", "answered"}, b \in Bodies :
        /\ rstep' = [rstep EXCEPT ![r] = s] /\ answerOf' = [answerOf EXCEPT ![r] = b]
        /\ UNCHANGED <<cached, inflight, channel>>
        /\ s = "answered" => b \in {r, RelayFailed}
  BY Kept DEF AnswerInv, RelayStart, ExitOk, ExitFailsAfterH2, ExitFails, To, Answer, Bodies
<1> QED BY <1>1, OwnKeeps DEF RelaySteps

\* A cache hit, and a waiter that gets the leader's answer.
LEMMA LookupKeeps ==
  ASSUME AnswerInv, NEW r \in Reqs, Lookup(r) \/ WaiterReceives(r)
  PROVE  AnswerInv'
<1>1. CASE Lookup(r)
  <2>1. FirstStep(r) \in {"fan", "first"} BY DEF FirstStep
  <2>2. cached[CacheKey(r)] \in Bodies BY KeyOf DEF AnswerInv, RelayTyped, Bodies
  <2>3. \E s \in {"fan", "first", "join", "answered"}, b \in Bodies :
          /\ rstep' = [rstep EXCEPT ![r] = s] /\ answerOf' = [answerOf EXCEPT ![r] = b]
          /\ UNCHANGED <<cached, inflight, channel>>
          /\ s = "join" => Coalescible(r)
          /\ s = "answered" => SameAnswer(r, b)
    BY <1>1, <2>1, <2>2, Kept DEF AnswerInv, KeysHonest, Lookup, To, Answer
  <2> QED BY <2>3, OwnKeeps DEF RelaySteps
<1>2. CASE WaiterReceives(r)
  <2> DEFINE b == channel[answerOf[r]]
  <2>1. SameAnswer(r, answerOf[r]) BY <1>2 DEF WaiterReceives, AnswerInv, StepsHonest
  <2>2. b \in Bodies /\ b \in {RelayFailed, answerOf[r]}
    BY <1>2, <2>1 DEF WaiterReceives, AnswerInv, RelayTyped, StepsHonest, SameAnswer
  <2>3. /\ rstep' = [rstep EXCEPT ![r] = "answered"] /\ answerOf' = [answerOf EXCEPT ![r] = b]
        /\ UNCHANGED <<cached, inflight, channel>>
    BY <1>2 DEF WaiterReceives, Answer, To
  <2> HIDE DEF b
  <2> QED BY <2>1, <2>2, <2>3, OwnKeeps DEF RelaySteps
<1> QED BY <1>1, <1>2

\* A leader enters its own key; a follower finds the leader under its key.
LEMMA JoinKeeps ==
  ASSUME AnswerInv, NEW r \in Reqs, Join(r)
  PROVE  AnswerInv'
<1>1. Coalescible(r) /\ rstep[r] = "join" BY DEF Join, AnswerInv, StepsHonest
<1>2. CASE inflight[CacheKey(r)] = NoReq
  <2>1. FirstStep(r) \in {"fan", "first"} BY DEF FirstStep
  <2>2. /\ inflight' = [inflight EXCEPT ![CacheKey(r)] = r]
        /\ rstep' = [rstep EXCEPT ![r] = FirstStep(r)]
        /\ UNCHANGED <<answerOf, cached, channel>>
    BY <1>2 DEF Join, To
  <2>3. RelayTyped' BY <2>1, <2>2 DEF AnswerInv, RelayTyped, RelaySteps
  <2>4. KeysHonest' 
    BY <1>1, <2>2, KeyOf DEF AnswerInv, RelayTyped, KeysHonest, SameAnswer
  <2>5. StepsHonest' BY <2>1, <2>2 DEF AnswerInv, StepsHonest, RelayTyped, SameAnswer
  <2> QED BY <2>3, <2>4, <2>5 DEF AnswerInv
<1>3. CASE inflight[CacheKey(r)] # NoReq
  <2>1. SameAnswer(r, inflight[CacheKey(r)]) /\ inflight[CacheKey(r)] \in Bodies
    BY <1>1, <1>3, KeyOf DEF AnswerInv, KeysHonest, RelayTyped, Bodies
  <2> QED BY <1>3, <2>1, OwnKeeps DEF Join, Answer, To, RelaySteps
<1> QED BY <1>2, <1>3

\* An attempt ends: an answer, an error, or the retry.
LEMMA AttemptKeeps ==
  ASSUME AnswerInv, NEW r \in Reqs,
         RelayOk(r) \/ AttemptFails(r) \/ AttemptNonRetryable(r) \/ RelayTimesOut(r)
  PROVE  AnswerInv'
<1>1. \E s \in {"second", "relayed"}, b \in Bodies :
        /\ rstep' = [rstep EXCEPT ![r] = s] /\ answerOf' = [answerOf EXCEPT ![r] = b]
        /\ UNCHANGED <<cached, inflight, channel>>
        /\ s = "relayed" => b \in {r, RelayFailed}
  BY Kept DEF AnswerInv, RelayOk, AttemptFails, AttemptNonRetryable, RelayTimesOut, To, Answer, Bodies
<1> QED BY <1>1, OwnKeeps DEF RelaySteps

\* The end of a relay: the cache and the channel get the leader's own answer.
LEMMA EndKeeps ==
  ASSUME AnswerInv, NEW r \in Reqs, StoreInCache(r) \/ Publish(r)
  PROVE  AnswerInv'
<1>1. CASE StoreInCache(r)
  <2>1. /\ rstep[r] = "relayed" /\ rstep' = [rstep EXCEPT ![r] = "publish"]
        /\ UNCHANGED <<answerOf, inflight, channel>>
        /\ UNCHANGED cached \/ (Coalescible(r) /\ cached' = [cached EXCEPT ![CacheKey(r)] = r])
    BY <1>1 DEF StoreInCache, To
  <2>2. RelayTyped' BY <2>1 DEF AnswerInv, RelayTyped, RelaySteps
  <2>3. KeysHonest' BY <2>1, KeyOf DEF AnswerInv, RelayTyped, KeysHonest, SameAnswer
  <2>4. StepsHonest' BY <2>1 DEF AnswerInv, StepsHonest, RelayTyped, SameAnswer
  <2> QED BY <2>2, <2>3, <2>4 DEF AnswerInv
<1>2. CASE Publish(r)
  <2>1. /\ rstep[r] = "publish" /\ rstep' = [rstep EXCEPT ![r] = "answered"]
        /\ UNCHANGED <<answerOf, cached>>
        /\ \/ UNCHANGED <<inflight, channel>>
           \/ /\ inflight' = [inflight EXCEPT ![CacheKey(r)] = NoReq]
              /\ channel' = [channel EXCEPT ![r] = answerOf[r]]
    BY <1>2 DEF Publish, To
  <2>2. RelayTyped' BY <2>1 DEF AnswerInv, RelayTyped, RelaySteps
  <2>3. KeysHonest' BY <2>1, KeyOf DEF AnswerInv, RelayTyped, KeysHonest, SameAnswer
  <2>4. StepsHonest' BY <2>1 DEF AnswerInv, StepsHonest, RelayTyped, SameAnswer
  <2> QED BY <2>2, <2>3, <2>4 DEF AnswerInv
<1> QED BY <1>1, <1>2

\* The cache drops an entry.
LEMMA DropKeeps ==
  ASSUME AnswerInv, NEW k \in Keys, CacheDrops(k)
  PROVE  AnswerInv'
<1>1. cached' = [cached EXCEPT ![k] = NoReq] /\ UNCHANGED <<rstep, answerOf, inflight, channel>>
  BY DEF CacheDrops
<1>2. RelayTyped' BY <1>1 DEF AnswerInv, RelayTyped
<1>3. KeysHonest' BY <1>1, KeyOf DEF AnswerInv, RelayTyped, KeysHonest, SameAnswer
<1>4. StepsHonest' BY <1>1 DEF AnswerInv, StepsHonest, SameAnswer
<1> QED BY <1>2, <1>3, <1>4 DEF AnswerInv

\* Every step of the relay.
LEMMA AnswerStep == AnswerInv /\ [RelayNext]_relayvars => AnswerInv'
<1> SUFFICES ASSUME AnswerInv, [RelayNext]_relayvars PROVE AnswerInv'
  OBVIOUS
<1>1. CASE UNCHANGED relayvars
  BY <1>1 DEF relayvars, AnswerInv, RelayTyped, KeysHonest, StepsHonest, SameAnswer
<1>2. CASE RelayNext
  BY <1>2, HeadKeeps, LookupKeeps, JoinKeeps, AttemptKeeps, EndKeeps, DropKeeps DEF RelayNext, RequestStep
<1> QED BY <1>1, <1>2

\* A caller gets the relay's error, the answer to its own request, or the one to
\* a request with the same method and URL that neither header nor body sets
\* apart: the cache and the coalescing map are never filed under another
\* request's key.
THEOREM AnswersMatch == RelaySpec => []AnswerIsOwn
<1>1. AnswerInv => AnswerIsOwn
  <2> SUFFICES ASSUME AnswerInv, NEW r \in Reqs, rstep[r] = "answered", answerOf[r] # RelayFailed, answerOf[r] # r
               PROVE  /\ ReqMethod[answerOf[r]] = ReqMethod[r] /\ ReqUrl[answerOf[r]] = ReqUrl[r]
                      /\ {r, answerOf[r]} \subseteq PlainReqs
    BY DEF AnswerIsOwn
  <2>1. SameAnswer(r, answerOf[r]) BY DEF AnswerInv, StepsHonest
  <2> QED BY <2>1 DEF SameAnswer, Coalescible, CacheKey
<1> QED BY <1>1, AnswerInitial, AnswerStep, PTL DEF RelaySpec

\* What is filed under a key is a request with that key, and coalesced.
EntriesOwn ==
  \A k \in Keys : inflight[k] # NoReq => Coalescible(inflight[k]) /\ CacheKey(inflight[k]) = k

\* The inductive invariant of the single flight.
LeadInv == AnswerInv /\ EntriesOwn /\ OneLeader

\* A step of r that leaves `inflight` and the channels alone, and neither begins
\* nor ends a relay that others may wait for.
LEMMA OwnLeads ==
  ASSUME LeadInv, NEW r \in Reqs, NEW s \in RelaySteps, NEW b,
         rstep' = [rstep EXCEPT ![r] = s], answerOf' = [answerOf EXCEPT ![r] = b],
         UNCHANGED <<inflight, channel>>,
         Coalescible(r) => (rstep[r] \in AtWork <=> s \in AtWork),
         s = "wait" => b = inflight[CacheKey(r)]
  PROVE  EntriesOwn' /\ OneLeader'
<1>1. RelayTyped BY DEF LeadInv, AnswerInv
<1>2. EntriesOwn' BY DEF LeadInv, EntriesOwn
<1>3. /\ rstep'[r] = s /\ answerOf'[r] = b
      /\ \A q \in Reqs : q # r => rstep'[q] = rstep[q] /\ answerOf'[q] = answerOf[q]
  BY <1>1 DEF RelayTyped
<1>4. \A q \in Reqs : Coalescible(q) /\ rstep'[q] \in AtWork => inflight'[CacheKey(q)] = q
  BY <1>3 DEF LeadInv, OneLeader
<1>5. \A k \in Keys : inflight'[k] # NoReq => rstep'[inflight'[k]] \in AtWork
  <2> SUFFICES ASSUME NEW k \in Keys, inflight[k] # NoReq PROVE rstep'[inflight[k]] \in AtWork OBVIOUS
  <2>1. inflight[k] \in Reqs /\ Coalescible(inflight[k]) /\ rstep[inflight[k]] \in AtWork
    BY <1>1 DEF LeadInv, RelayTyped, EntriesOwn, OneLeader
  <2> QED BY <1>3, <2>1
<1>6. \A q \in Reqs : rstep'[q] = "wait" => inflight'[CacheKey(q)] = answerOf'[q] \/ channel'[answerOf'[q]] # NoReq
  BY <1>3 DEF LeadInv, OneLeader
<1> QED BY <1>2, <1>4, <1>5, <1>6 DEF OneLeader

\* The exit node and the cache answer before there is an entry.
LEMMA HeadLeads ==
  ASSUME LeadInv, NEW r \in Reqs,
         RelayStart(r) \/ ExitOk(r) \/ ExitFailsAfterH2(r) \/ ExitFails(r) \/ Lookup(r) \/ WaiterReceives(r)
  PROVE  EntriesOwn' /\ OneLeader'
<1>1. FirstStep(r) \in {"fan", "first"} BY DEF FirstStep
<1>2. rstep[r] \notin AtWork
  BY DEF RelayStart, ExitOk, ExitFailsAfterH2, ExitFails, Lookup, WaiterReceives, AtWork
<1>3. \E s \in {"exit", "lookup", "fan", "first", "join", "answered"} :
        /\ rstep' = [rstep EXCEPT ![r] = s] /\ (\E b : answerOf' = [answerOf EXCEPT ![r] = b])
        /\ UNCHANGED <<inflight, channel>>
        /\ Coalescible(r) => s \notin {"fan", "first"}
  BY <1>1, Kept DEF LeadInv, AnswerInv, RelayStart, ExitOk, ExitFailsAfterH2, ExitFails, Lookup, WaiterReceives, To, Answer
<1>4. PICK s \in {"exit", "lookup", "fan", "first", "join", "answered"} :
        /\ rstep' = [rstep EXCEPT ![r] = s] /\ (\E b : answerOf' = [answerOf EXCEPT ![r] = b])
        /\ UNCHANGED <<inflight, channel>>
        /\ Coalescible(r) => s \notin {"fan", "first"}
  BY <1>3
<1>5. s \in RelaySteps /\ s # "wait" /\ (Coalescible(r) => s \notin AtWork) BY <1>4 DEF RelaySteps, AtWork
<1> QED BY <1>2, <1>4, <1>5, OwnLeads

\* The attempts of a relay are all its leader's.
LEMMA AttemptLeads ==
  ASSUME LeadInv, NEW r \in Reqs,
         RelayOk(r) \/ AttemptFails(r) \/ AttemptNonRetryable(r) \/ RelayTimesOut(r) \/ StoreInCache(r)
  PROVE  EntriesOwn' /\ OneLeader'
<1>1. rstep[r] \in AtWork
  BY DEF RelayOk, AttemptFails, AttemptNonRetryable, RelayTimesOut, StoreInCache, Relaying, AtWork
<1>2. \E s \in {"second", "relayed", "publish"} :
        /\ rstep' = [rstep EXCEPT ![r] = s] /\ (\E b : answerOf' = [answerOf EXCEPT ![r] = b])
        /\ UNCHANGED <<inflight, channel>>
  BY Kept DEF LeadInv, AnswerInv, RelayOk, AttemptFails, AttemptNonRetryable, RelayTimesOut, StoreInCache, To, Answer
<1>3. PICK s \in {"second", "relayed", "publish"} :
        /\ rstep' = [rstep EXCEPT ![r] = s] /\ (\E b : answerOf' = [answerOf EXCEPT ![r] = b])
        /\ UNCHANGED <<inflight, channel>>
  BY <1>2
<1>4. s \in RelaySteps /\ s # "wait" /\ s \in AtWork BY <1>3 DEF RelaySteps, AtWork
<1> QED BY <1>1, <1>3, <1>4, OwnLeads

\* A request that finds no entry leads; one that finds an entry waits for it.
LEMMA JoinLeads ==
  ASSUME LeadInv, NEW r \in Reqs, Join(r)
  PROVE  EntriesOwn' /\ OneLeader'
<1>1. RelayTyped /\ Coalescible(r) /\ rstep[r] = "join" BY DEF Join, LeadInv, AnswerInv, StepsHonest
<1>2. CASE inflight[CacheKey(r)] = NoReq
  <2>1. FirstStep(r) \in AtWork BY DEF FirstStep, AtWork
  <2>2. /\ inflight' = [inflight EXCEPT ![CacheKey(r)] = r] /\ rstep' = [rstep EXCEPT ![r] = FirstStep(r)]
        /\ UNCHANGED <<answerOf, channel>>
    BY <1>2, NotReqs DEF Join, To
  <2>3. /\ rstep'[r] \in AtWork /\ \A q \in Reqs : q # r => rstep'[q] = rstep[q]
        /\ inflight'[CacheKey(r)] = r /\ \A k \in Keys : k # CacheKey(r) => inflight'[k] = inflight[k]
    BY <1>1, <2>1, <2>2, KeyOf DEF RelayTyped
  <2>4. EntriesOwn' BY <1>1, <2>3 DEF LeadInv, EntriesOwn
  <2>5. \A q \in Reqs : Coalescible(q) /\ rstep'[q] \in AtWork => inflight'[CacheKey(q)] = q
    <3> SUFFICES ASSUME NEW q \in Reqs, Coalescible(q), rstep'[q] \in AtWork PROVE inflight'[CacheKey(q)] = q OBVIOUS
    <3>1. CASE q = r BY <2>3, <3>1
    <3>2. CASE q # r
      <4>1. inflight[CacheKey(q)] = q BY <2>3, <3>2 DEF LeadInv, OneLeader
      <4>2. CacheKey(q) # CacheKey(r) BY <1>2, <4>1, NotReqs
      <4> QED BY <2>3, <4>1, <4>2, KeyOf
    <3> QED BY <3>1, <3>2
  <2>6. \A k \in Keys : inflight'[k] # NoReq => rstep'[inflight'[k]] \in AtWork
    <3> SUFFICES ASSUME NEW k \in Keys, inflight'[k] # NoReq PROVE rstep'[inflight'[k]] \in AtWork OBVIOUS
    <3>1. CASE k = CacheKey(r) BY <2>3, <3>1
    <3>2. CASE k # CacheKey(r)
      <4>1. inflight'[k] = inflight[k] /\ inflight[k] \in Reqs /\ rstep[inflight[k]] \in AtWork
        BY <1>1, <2>3, <3>2 DEF LeadInv, OneLeader, RelayTyped
      <4>2. inflight[k] # r BY <1>1, <4>1 DEF AtWork
      <4> QED BY <2>3, <4>1, <4>2
    <3> QED BY <3>1, <3>2
  <2>7. \A q \in Reqs : rstep'[q] = "wait" => inflight'[CacheKey(q)] = answerOf'[q] \/ channel'[answerOf'[q]] # NoReq
    <3> SUFFICES ASSUME NEW q \in Reqs, rstep'[q] = "wait"
                 PROVE  inflight'[CacheKey(q)] = answerOf[q] \/ channel[answerOf[q]] # NoReq
      BY <2>2
    <3>1. q # r /\ rstep[q] = "wait" BY <2>3 DEF AtWork
    <3>2. inflight[CacheKey(q)] = answerOf[q] \/ channel[answerOf[q]] # NoReq BY <3>1 DEF LeadInv, OneLeader
    <3>3. answerOf[q] \in Reqs BY <3>1 DEF LeadInv, AnswerInv, StepsHonest, SameAnswer
    <3> QED BY <1>2, <2>3, <3>2, <3>3, NotReqs, KeyOf
  <2> QED BY <2>4, <2>5, <2>6, <2>7 DEF OneLeader
<1>3. CASE inflight[CacheKey(r)] # NoReq
  <2>1. /\ rstep' = [rstep EXCEPT ![r] = "wait"] /\ answerOf' = [answerOf EXCEPT ![r] = inflight[CacheKey(r)]]
        /\ UNCHANGED <<inflight, channel>>
    BY <1>3 DEF Join, Answer, To
  <2>2. "wait" \in RelaySteps /\ rstep[r] \notin AtWork /\ "wait" \notin AtWork BY <1>1 DEF RelaySteps, AtWork
  <2> QED BY <2>1, <2>2, OwnLeads
<1> QED BY <1>2, <1>3

\* The leader takes its entry out and sends under one lock: whoever found the
\* entry has an answer.
LEMMA PublishLeads ==
  ASSUME LeadInv, NEW r \in Reqs, Publish(r)
  PROVE  EntriesOwn' /\ OneLeader'
<1>1. /\ RelayTyped /\ rstep[r] = "publish" /\ rstep[r] \in AtWork /\ answerOf[r] # NoReq
  BY NotReqs DEF LeadInv, AnswerInv, StepsHonest, Publish, AtWork, NoReq, RelayFailed
<1>2. CASE ~Coalescible(r)
  <2>1. rstep' = [rstep EXCEPT ![r] = "answered"] /\ answerOf' = [answerOf EXCEPT ![r] = answerOf[r]]
        /\ UNCHANGED <<inflight, channel>>
    BY <1>1, <1>2, Kept DEF Publish, To
  <2> QED BY <1>2, <2>1, OwnLeads DEF RelaySteps
<1>3. CASE Coalescible(r)
  <2>1. /\ rstep' = [rstep EXCEPT ![r] = "answered"] /\ answerOf' = answerOf
        /\ inflight' = [inflight EXCEPT ![CacheKey(r)] = NoReq] /\ channel' = [channel EXCEPT ![r] = answerOf[r]]
    BY <1>3 DEF Publish, To
  <2>2. /\ rstep'[r] = "answered" /\ \A q \in Reqs : q # r => rstep'[q] = rstep[q]
        /\ channel'[r] # NoReq /\ \A q \in Reqs : q # r => channel'[q] = channel[q]
        /\ inflight'[CacheKey(r)] = NoReq /\ \A k \in Keys : k # CacheKey(r) => inflight'[k] = inflight[k]
    BY <1>1, <2>1, KeyOf DEF RelayTyped
  <2>3. inflight[CacheKey(r)] = r BY <1>1, <1>3 DEF LeadInv, OneLeader
  <2>4. EntriesOwn' BY <2>2 DEF LeadInv, EntriesOwn
  <2>5. \A q \in Reqs : Coalescible(q) /\ rstep'[q] \in AtWork => inflight'[CacheKey(q)] = q
    <3> SUFFICES ASSUME NEW q \in Reqs, Coalescible(q), rstep'[q] \in AtWork PROVE inflight'[CacheKey(q)] = q OBVIOUS
    <3>1. q # r /\ rstep[q] \in AtWork BY <2>2 DEF AtWork
    <3>2. inflight[CacheKey(q)] = q BY <3>1 DEF LeadInv, OneLeader
    <3>3. CacheKey(q) # CacheKey(r) BY <2>3, <3>1, <3>2
    <3> QED BY <2>2, <3>2, <3>3, KeyOf
  <2>6. \A k \in Keys : inflight'[k] # NoReq => rstep'[inflight'[k]] \in AtWork
    <3> SUFFICES ASSUME NEW k \in Keys, inflight'[k] # NoReq PROVE rstep'[inflight'[k]] \in AtWork OBVIOUS
    <3>1. k # CacheKey(r) /\ inflight'[k] = inflight[k] BY <2>2
    <3>2. inflight[k] \in Reqs /\ rstep[inflight[k]] \in AtWork /\ CacheKey(inflight[k]) = k
      BY <1>1, <3>1 DEF LeadInv, OneLeader, EntriesOwn, RelayTyped
    <3>3. inflight[k] # r BY <3>1, <3>2
    <3> QED BY <2>2, <3>1, <3>2, <3>3
  <2>7. \A q \in Reqs : rstep'[q] = "wait" => inflight'[CacheKey(q)] = answerOf'[q] \/ channel'[answerOf'[q]] # NoReq
    <3> SUFFICES ASSUME NEW q \in Reqs, rstep'[q] = "wait"
                 PROVE  inflight'[CacheKey(q)] = answerOf[q] \/ channel'[answerOf[q]] # NoReq
      BY <2>1
    <3>1. q # r /\ rstep[q] = "wait" BY <2>2
    <3>2. inflight[CacheKey(q)] = answerOf[q] \/ channel[answerOf[q]] # NoReq BY <3>1 DEF LeadInv, OneLeader
    <3>3. answerOf[q] \in Reqs BY <3>1 DEF LeadInv, AnswerInv, StepsHonest, SameAnswer
    <3>4. CASE answerOf[q] = r BY <2>2, <3>4
    <3>5. CASE answerOf[q] # r
      <4>1. inflight[CacheKey(q)] = answerOf[q] => CacheKey(q) # CacheKey(r) BY <2>3, <3>5
      <4> QED BY <2>2, <3>2, <3>3, <3>5, <4>1, KeyOf
    <3> QED BY <3>4, <3>5
  <2> QED BY <2>4, <2>5, <2>6, <2>7 DEF OneLeader
<1> QED BY <1>2, <1>3

\* Every step keeps the single flight.
LEMMA LeadStep == LeadInv /\ [RelayNext]_relayvars => LeadInv'
<1> SUFFICES ASSUME LeadInv, [RelayNext]_relayvars PROVE LeadInv' OBVIOUS
<1>1. AnswerInv' BY AnswerStep DEF LeadInv
<1>2. CASE UNCHANGED <<rstep, answerOf, inflight, channel>>
  <2>1. EntriesOwn' /\ OneLeader' BY <1>2 DEF LeadInv, EntriesOwn, OneLeader
  <2> QED BY <1>1, <2>1 DEF LeadInv
<1>3. CASE \E r \in Reqs : RequestStep(r)
  <2>1. EntriesOwn' /\ OneLeader'
    BY <1>3, HeadLeads, AttemptLeads, JoinLeads, PublishLeads DEF RequestStep
  <2> QED BY <1>1, <2>1 DEF LeadInv
<1> QED BY <1>2, <1>3 DEF RelayNext, CacheDrops, relayvars

\* For any requests, keys and fan-out: of the requests with one key at most one
\* has a relay under way, and no request waits for a leader that has gone without
\* publishing, which is what a waiter's answer depends on.
THEOREM SingleFlight == RelaySpec => []OneLeader
<1>1. RelayInit => LeadInv
  <2>1. RelayInit => EntriesOwn /\ OneLeader BY KeyOf DEF RelayInit, EntriesOwn, OneLeader, AtWork
  <2> QED BY <2>1, AnswerInitial DEF LeadInv
<1>2. LeadInv => OneLeader BY DEF LeadInv
<1> QED BY <1>1, <1>2, LeadStep, PTL DEF RelaySpec

\* Executions of r at the destination by the time it is at step s.
ExecsAt(r, s) ==
  LET e == IF r \in ExitReqs THEN 1 ELSE 0 IN
  CASE s \in {"new", "exit"} -> 0
    [] s \in {"lookup", "join", "wait", "first"} -> e
    [] s = "second" -> e + 1
    [] OTHER -> e + 2

\* The inductive invariant of the attempts; only what may be replayed is fanned out.
ExecInv ==
  /\ rstep \in [Reqs -> RelaySteps] /\ execs \in [Reqs -> Nat]
  /\ \A r \in Reqs :
       /\ rstep[r] = "exit" => r \in ExitReqs
       /\ rstep[r] = "fan" => SafeToReplay(r)
       /\ ~SafeToReplay(r) => execs[r] <= ExecsAt(r, rstep[r])

\* A step of r to t that executes it once or not at all.
LEMMA ExecsMove ==
  ASSUME ExecInv, NEW r \in Reqs, NEW t \in RelaySteps, rstep' = [rstep EXCEPT ![r] = t],
         UNCHANGED execs \/ execs' = [execs EXCEPT ![r] = IF SafeToReplay(r) THEN @ ELSE @ + 1],
         t = "exit" => r \in ExitReqs, t = "fan" => SafeToReplay(r),
         ~SafeToReplay(r) /\ execs'[r] = execs[r] => ExecsAt(r, rstep[r]) <= ExecsAt(r, t),
         ~SafeToReplay(r) /\ execs'[r] # execs[r] => ExecsAt(r, rstep[r]) + 1 <= ExecsAt(r, t)
  PROVE  ExecInv'
<1>1. rstep \in [Reqs -> RelaySteps] /\ execs \in [Reqs -> Nat] BY DEF ExecInv
<1>2. \A q \in Reqs, s \in RelaySteps : ExecsAt(q, s) \in Nat
  <2> SUFFICES ASSUME NEW q \in Reqs, NEW s \in RelaySteps PROVE ExecsAt(q, s) \in Nat OBVIOUS
  <2>1. ExecsAt(q, s) \in {0, 1, 2, 3} BY DEF ExecsAt
  <2> QED BY <2>1
<1>3. rstep' \in [Reqs -> RelaySteps] /\ rstep'[r] = t /\ \A q \in Reqs : q # r => rstep'[q] = rstep[q] BY <1>1
<1>4. execs' \in [Reqs -> Nat] /\ \A q \in Reqs : q # r => execs'[q] = execs[q] BY <1>1
<1>5. execs'[r] = execs[r] \/ execs'[r] = execs[r] + 1 BY <1>1
<1>6. ASSUME ~SafeToReplay(r) PROVE execs'[r] <= ExecsAt(r, t)
  <2>1. /\ execs[r] \in Nat /\ ExecsAt(r, rstep[r]) \in Nat /\ ExecsAt(r, t) \in Nat
        /\ execs[r] <= ExecsAt(r, rstep[r])
    BY <1>1, <1>2, <1>6 DEF ExecInv
  <2>2. CASE execs'[r] = execs[r]
    <3>1. ExecsAt(r, rstep[r]) <= ExecsAt(r, t) BY <1>6, <2>2
    <3> QED BY <2>1, <2>2, <3>1
  <2>3. CASE execs'[r] # execs[r]
    <3>1. ExecsAt(r, rstep[r]) + 1 <= ExecsAt(r, t) /\ execs'[r] = execs[r] + 1 BY <1>5, <1>6, <2>3
    <3> QED BY <2>1, <3>1
  <2> QED BY <2>2, <2>3
<1>7. ASSUME NEW q \in Reqs
      PROVE  /\ rstep'[q] = "exit" => q \in ExitReqs
             /\ rstep'[q] = "fan" => SafeToReplay(q)
             /\ ~SafeToReplay(q) => execs'[q] <= ExecsAt(q, rstep'[q])
  <2>1. CASE q = r BY <1>3, <1>6, <2>1
  <2>2. CASE q # r BY <1>3, <1>4, <2>2 DEF ExecInv
  <2> QED BY <2>1, <2>2
<1> QED BY <1>3, <1>4, <1>7 DEF ExecInv

\* Every step executes a request as often as its place allows.
LEMMA ExecStep == ExecInv /\ [RelayNext]_relayvars => ExecInv'
<1> SUFFICES ASSUME ExecInv, [RelayNext]_relayvars PROVE ExecInv' OBVIOUS
<1>0. rstep \in [Reqs -> RelaySteps] BY DEF ExecInv
<1>1. CASE UNCHANGED <<rstep, execs>> BY <1>1 DEF ExecInv
<1>2. ASSUME NEW r \in Reqs, RelayStart(r) \/ ExitOk(r) \/ ExitFailsAfterH2(r) \/ ExitFails(r) PROVE ExecInv'
  <2>1. \E t \in {"exit", "lookup", "answered"} :
          /\ rstep' = [rstep EXCEPT ![r] = t] /\ (t = "exit" => r \in ExitReqs)
          /\ \/ rstep[r] = "new" /\ UNCHANGED execs
             \/ /\ rstep[r] = "exit" /\ t # "exit"
                /\ UNCHANGED execs \/ execs' = [execs EXCEPT ![r] = IF SafeToReplay(r) THEN @ ELSE @ + 1]
    BY <1>2 DEF RelayStart, ExitOk, ExitFailsAfterH2, ExitFails, MaybeExecuted, Executed, To, Answer
  <2>2. PICK t \in {"exit", "lookup", "answered"} :
          /\ rstep' = [rstep EXCEPT ![r] = t] /\ (t = "exit" => r \in ExitReqs)
          /\ \/ rstep[r] = "new" /\ UNCHANGED execs
             \/ /\ rstep[r] = "exit" /\ t # "exit"
                /\ UNCHANGED execs \/ execs' = [execs EXCEPT ![r] = IF SafeToReplay(r) THEN @ ELSE @ + 1]
    BY <2>1
  <2>3. rstep[r] = "exit" => r \in ExitReqs BY DEF ExecInv
  <2>4. t \in RelaySteps /\ t # "fan" BY <2>2 DEF RelaySteps
  <2>5. ExecsAt(r, rstep[r]) <= ExecsAt(r, t) BY <2>2, <2>3 DEF ExecsAt
  <2>6. rstep[r] = "exit" /\ t # "exit" => ExecsAt(r, rstep[r]) + 1 <= ExecsAt(r, t) BY <2>2, <2>3 DEF ExecsAt
  <2> QED BY <2>2, <2>4, <2>5, <2>6, ExecsMove
<1>3. ASSUME NEW r \in Reqs, Lookup(r) \/ Join(r) \/ WaiterReceives(r) PROVE ExecInv'
  <2>1. \E t \in {"join", "wait", "first", "fan", "answered"} :
          /\ rstep' = [rstep EXCEPT ![r] = t] /\ (t = "fan" => SafeToReplay(r))
          /\ rstep[r] \in {"lookup", "join", "wait"} /\ UNCHANGED execs
    BY <1>3 DEF Lookup, Join, WaiterReceives, FirstStep, To, Answer
  <2>2. PICK t \in {"join", "wait", "first", "fan", "answered"} :
          /\ rstep' = [rstep EXCEPT ![r] = t] /\ (t = "fan" => SafeToReplay(r))
          /\ rstep[r] \in {"lookup", "join", "wait"} /\ UNCHANGED execs
    BY <2>1
  <2>3. t \in RelaySteps /\ t # "exit" BY <2>2 DEF RelaySteps
  <2>4. ExecsAt(r, rstep[r]) <= ExecsAt(r, t) BY <2>2 DEF ExecsAt
  <2> QED BY <2>2, <2>3, <2>4, ExecsMove
<1>4. ASSUME NEW r \in Reqs, RelayOk(r) \/ AttemptFails(r) \/ AttemptNonRetryable(r) \/ RelayTimesOut(r) PROVE ExecInv'
  <2>1. \E t \in {"second", "relayed"} :
          /\ rstep' = [rstep EXCEPT ![r] = t] /\ (t = "second" => rstep[r] = "first")
          /\ rstep[r] \in {"first", "second", "fan"}
          /\ UNCHANGED execs \/ execs' = [execs EXCEPT ![r] = IF SafeToReplay(r) THEN @ ELSE @ + 1]
    BY <1>4 DEF RelayOk, AttemptFails, AttemptNonRetryable, RelayTimesOut, Relaying, MaybeExecuted, Executed, To, Answer
  <2>2. PICK t \in {"second", "relayed"} :
          /\ rstep' = [rstep EXCEPT ![r] = t] /\ (t = "second" => rstep[r] = "first")
          /\ rstep[r] \in {"first", "second", "fan"}
          /\ UNCHANGED execs \/ execs' = [execs EXCEPT ![r] = IF SafeToReplay(r) THEN @ ELSE @ + 1]
    BY <2>1
  <2>3. rstep[r] = "fan" => SafeToReplay(r) BY DEF ExecInv
  <2>4. t \in RelaySteps /\ t # "exit" /\ t # "fan" BY <2>2 DEF RelaySteps
  <2>5. ~SafeToReplay(r) => ExecsAt(r, rstep[r]) + 1 <= ExecsAt(r, t) /\ ExecsAt(r, rstep[r]) <= ExecsAt(r, t)
    BY <2>2, <2>3 DEF ExecsAt
  <2> QED BY <2>2, <2>4, <2>5, ExecsMove
<1>5. ASSUME NEW r \in Reqs, StoreInCache(r) \/ Publish(r) PROVE ExecInv'
  <2>1. \E t \in {"publish", "answered"} :
          rstep' = [rstep EXCEPT ![r] = t] /\ rstep[r] \in {"relayed", "publish"} /\ UNCHANGED execs
    BY <1>5 DEF StoreInCache, Publish, To
  <2>2. PICK t \in {"publish", "answered"} :
          rstep' = [rstep EXCEPT ![r] = t] /\ rstep[r] \in {"relayed", "publish"} /\ UNCHANGED execs
    BY <2>1
  <2>3. t \in RelaySteps /\ t # "exit" /\ t # "fan" BY <2>2 DEF RelaySteps
  <2>4. ExecsAt(r, rstep[r]) <= ExecsAt(r, t) BY <2>2 DEF ExecsAt
  <2> QED BY <2>2, <2>3, <2>4, ExecsMove
<1> QED BY <1>1, <1>2, <1>3, <1>4, <1>5 DEF RelayNext, RequestStep, CacheDrops, relayvars

\* For any requests, routes and fan-out, whatever fails and times out: a request
\* that is not safe to repeat is executed at most twice, three times behind an
\* exit node.
THEOREM RetriesBounded == RelaySpec => []ExecsBounded
<1>1. RelayInit => ExecInv
  <2> SUFFICES ASSUME RelayInit PROVE ExecInv OBVIOUS
  <2>1. \A r \in Reqs : ExecsAt(r, "new") = 0 BY DEF ExecsAt
  <2> QED BY <2>1 DEF RelayInit, ExecInv, RelaySteps
<1>2. ExecInv => ExecsBounded
  <2> SUFFICES ASSUME ExecInv, NEW r \in Reqs, ~SafeToReplay(r) PROVE execs[r] <= IF r \in ExitReqs THEN 3 ELSE 2
    BY DEF ExecsBounded
  <2>1. execs[r] \in Nat /\ execs[r] <= ExecsAt(r, rstep[r]) BY DEF ExecInv
  <2>2. ExecsAt(r, rstep[r]) \in IF r \in ExitReqs THEN {0, 1, 2, 3} ELSE {0, 1, 2} BY DEF ExecsAt
  <2> QED BY <2>1, <2>2
<1> QED BY <1>1, <1>2, ExecStep, PTL DEF RelaySpec

-----------------------------------------------------------------------------
(* Response cache *)

Distinct(s) == \A i, j \in DOMAIN s : s[i] = s[j] => i = j

\* retain, one position at a time.
KeptSoFar(s, k, f) ==
  f = [i \in 0..Len(s) |-> IF i = 0 THEN <<>>
                           ELSE IF s[i] = k THEN f[i - 1] ELSE Append(f[i - 1], s[i])]

\* Without is the last value of that recursion.
LEMMA WithoutDef ==
  ASSUME NEW s, NEW k
  PROVE  Without(s, k) = (CHOOSE f : KeptSoFar(s, k, f))[Len(s)]
BY DEF Without, KeptSoFar

\* What retain leaves after the first n positions.
Retains(s, k, n, t) ==
  /\ t \in Seq(CacheKeys)
  /\ ToSet(t) = {s[j] : j \in 1..n} \ {k}
  /\ Distinct(s) => Distinct(t)

\* Another key is kept.
LEMMA RetainsAppend ==
  ASSUME NEW s \in Seq(CacheKeys), NEW k, NEW n \in Nat, n + 1 \in 1..Len(s),
         NEW t, Retains(s, k, n, t), s[n + 1] # k
  PROVE  Retains(s, k, n + 1, Append(t, s[n + 1]))
<1> DEFINE x == s[n + 1]
           u == Append(t, x)
<1>1. x \in CacheKeys /\ t \in Seq(CacheKeys)
  BY DEF Retains
<1>2. /\ u \in Seq(CacheKeys) /\ Len(u) = Len(t) + 1 /\ Len(t) \in Nat
      /\ \A i \in 1..Len(t) : u[i] = t[i]
      /\ u[Len(t) + 1] = x
      /\ DOMAIN u = 1..(Len(t) + 1) /\ DOMAIN t = 1..Len(t)
  BY <1>1, AppendProperties, LenProperties
<1> HIDE DEF u
<1>3. \A i \in 1..(Len(t) + 1) : i \in 1..Len(t) \/ i = Len(t) + 1
  BY <1>2
<1>4. ToSet(u) = ToSet(t) \cup {x}
  BY <1>2, <1>3 DEF ToSet
<1>5. \A j \in 1..(n + 1) : j \in 1..n \/ j = n + 1
  OBVIOUS
<1>6. {s[j] : j \in 1..(n + 1)} = {s[j] : j \in 1..n} \cup {x}
  BY <1>5
<1>7. ToSet(u) = {s[j] : j \in 1..(n + 1)} \ {k}
  BY <1>4, <1>6 DEF Retains
<1>8. ASSUME Distinct(s) PROVE Distinct(u)
  <2>1. x \notin ToSet(t)
    <3>1. ASSUME NEW j \in 1..n PROVE s[j] # x
      <4>1. j \in DOMAIN s /\ n + 1 \in DOMAIN s /\ j # n + 1
        BY LenProperties
      <4> QED BY <1>8, <4>1 DEF Distinct
    <3> QED BY <3>1 DEF Retains
  <2>2. \A i \in 1..Len(t) : t[i] # x
    BY <1>2, <2>1 DEF ToSet
  <2>3. \A i, j \in 1..Len(t) : t[i] = t[j] => i = j
    BY <1>2, <1>8 DEF Retains, Distinct
  <2>4. SUFFICES ASSUME NEW i \in DOMAIN u, NEW j \in DOMAIN u, u[i] = u[j] PROVE i = j
    BY DEF Distinct
  <2>5. (i \in 1..Len(t) \/ i = Len(t) + 1) /\ (j \in 1..Len(t) \/ j = Len(t) + 1)
    BY <1>2, <1>3
  <2> QED BY <1>2, <2>2, <2>3, <2>4, <2>5
<1> QED BY <1>2, <1>7, <1>8 DEF Retains, u

\* The key itself is skipped.
LEMMA RetainsSkip ==
  ASSUME NEW s \in Seq(CacheKeys), NEW n \in Nat, n + 1 \in 1..Len(s), NEW t,
         Retains(s, s[n + 1], n, t)
  PROVE  Retains(s, s[n + 1], n + 1, t)
<1>1. \A j \in 1..(n + 1) : j \in 1..n \/ j = n + 1
  OBVIOUS
<1>2. {s[j] : j \in 1..(n + 1)} \ {s[n + 1]} = {s[j] : j \in 1..n} \ {s[n + 1]}
  BY <1>1
<1> QED BY <1>2 DEF Retains

\* The recursion has a solution.
LEMMA KeptExists ==
  ASSUME NEW s \in Seq(CacheKeys), NEW k
  PROVE  \E f : KeptSoFar(s, k, f)
<1> DEFINE Step(f, i) == IF i = 0 THEN <<>>
                         ELSE IF s[i] = k THEN f[i - 1] ELSE Append(f[i - 1], s[i])
           N == {n \in Nat : \E f : f = [i \in 0..n |-> Step(f, i)]}
<1>1. 0 \in N
  <2> DEFINE f == [i \in 0..0 |-> <<>>]
  <2>1. f = [i \in 0..0 |-> Step(f, i)]
    OBVIOUS
  <2> HIDE DEF f, Step
  <2> QED BY <2>1
<1>2. ASSUME NEW n \in Nat, n \in N PROVE n + 1 \in N
  <2>1. PICK f : f = [i \in 0..n |-> Step(f, i)]
    BY <1>2
  <2> DEFINE g == [i \in 0..(n + 1) |-> Step(f, i)]
  <2>2. \A i \in 0..n : g[i] = f[i]
    <3>1. \A i \in 0..n : i \in 0..(n + 1) /\ f[i] = Step(f, i)
      <4> HIDE DEF Step
      <4> QED BY <2>1
    <3> HIDE DEF Step
    <3> QED BY <3>1
  <2>3. ASSUME NEW i \in 0..(n + 1) PROVE Step(f, i) = Step(g, i)
    <3>1. CASE i = 0
      BY <3>1
    <3>2. CASE i # 0
      <4>1. i - 1 \in 0..n
        BY <3>2
      <4>2. g[i - 1] = f[i - 1]
        BY <2>2, <4>1
      <4> HIDE DEF g
      <4> QED BY <3>2, <4>2
    <3> QED BY <3>1, <3>2
  <2>4. g = [i \in 0..(n + 1) |-> Step(g, i)]
    <3>1. \A i \in 0..(n + 1) : g[i] = Step(g, i)
      <4> HIDE DEF Step
      <4> QED BY <2>3
    <3>2. g = [i \in 0..(n + 1) |-> g[i]]
      <4> HIDE DEF Step
      <4> QED OBVIOUS
    <3> HIDE DEF g, Step
    <3> QED BY <3>1, <3>2
  <2> HIDE DEF g, Step
  <2> QED BY <2>4
<1>3. Nat \subseteq N
  <2> HIDE DEF N
  <2> QED BY <1>1, <1>2, NatSetInduction
<1>4. PICK f : f = [i \in 0..Len(s) |-> Step(f, i)]
  BY <1>3, LenProperties
<1> QED BY <1>4 DEF KeptSoFar

\* retain leaves the other keys, each as often as it was there: at most once.
LEMMA WithoutKeeps ==
  ASSUME NEW s \in Seq(CacheKeys), NEW k
  PROVE  /\ Without(s, k) \in Seq(CacheKeys)
         /\ ToSet(Without(s, k)) = ToSet(s) \ {k}
         /\ Distinct(s) => Distinct(Without(s, k))
<1> DEFINE f == CHOOSE g : KeptSoFar(s, k, g)
           N == {n \in Nat : n <= Len(s) => Retains(s, k, n, f[n])}
<1>1. KeptSoFar(s, k, f)
  BY KeptExists
<1> HIDE DEF f
<1>2. Len(s) \in Nat /\ DOMAIN s = 1..Len(s)
  BY LenProperties
<1>3. \A i \in 0..Len(s) : f[i] = IF i = 0 THEN <<>>
                                  ELSE IF s[i] = k THEN f[i - 1] ELSE Append(f[i - 1], s[i])
  BY <1>1 DEF KeptSoFar
<1>4. 0 \in N
  <2>1. f[0] = <<>>
    BY <1>2, <1>3
  <2>2. Retains(s, k, 0, <<>>)
    BY EmptySeq DEF Retains, ToSet, Distinct
  <2> QED BY <2>1, <2>2
<1>5. ASSUME NEW n \in Nat, n \in N PROVE n + 1 \in N
  <2>1. SUFFICES ASSUME n + 1 <= Len(s) PROVE Retains(s, k, n + 1, f[n + 1])
    OBVIOUS
  <2>2. /\ n + 1 \in 1..Len(s) /\ n + 1 \in 0..Len(s) /\ (n + 1) - 1 = n /\ n + 1 # 0
        /\ Retains(s, k, n, f[n])
    BY <1>2, <1>5, <2>1
  <2>3. f[n + 1] = IF s[n + 1] = k THEN f[n] ELSE Append(f[n], s[n + 1])
    BY <1>3, <2>2
  <2> QED BY <2>2, <2>3, RetainsAppend, RetainsSkip
<1>6. Nat \subseteq N
  <2> HIDE DEF N
  <2> QED BY <1>4, <1>5, NatSetInduction
<1>7. Retains(s, k, Len(s), f[Len(s)])
  BY <1>2, <1>6
<1>8. Without(s, k) = f[Len(s)]
  BY WithoutDef DEF f
<1>9. {s[j] : j \in 1..Len(s)} = ToSet(s)
  BY <1>2 DEF ToSet
<1> QED BY <1>7, <1>8, <1>9 DEF Retains

-----------------------------------------------------------------------------
Held(e) == {x \in CacheKeys : e[x] > 0}

\* The sizes are naturals, the count is their sum, and the order is a list without
\* repetitions of the keys that hold something.
Balanced(e, o, b) ==
  /\ e \in [CacheKeys -> Nat]
  /\ b = SumFunctionOnSet(e, CacheKeys)
  /\ o \in Seq(CacheKeys) /\ Distinct(o) /\ ToSet(o) = Held(e)

CacheInv == Balanced(entries, order, bytes) /\ bytes <= MaxBytes

\* A list without repetitions is as long as the set of its elements is large.
LEMMA DistinctLength ==
  ASSUME NEW o \in Seq(CacheKeys), Distinct(o)
  PROVE  Len(o) = Cardinality(ToSet(o))
<1> DEFINE N == {n \in Nat : n <= Len(o) => /\ IsFiniteSet(Oldest(o, n))
                                            /\ Cardinality(Oldest(o, n)) = n}
<1>1. Len(o) \in Nat /\ DOMAIN o = 1..Len(o)
  BY LenProperties
<1>2. 0 \in N
  <2>1. Oldest(o, 0) = {}
    BY DEF Oldest
  <2> QED BY <2>1, FS_EmptySet
<1>3. ASSUME NEW n \in Nat, n \in N PROVE n + 1 \in N
  <2>1. SUFFICES ASSUME n + 1 <= Len(o)
                 PROVE  IsFiniteSet(Oldest(o, n + 1)) /\ Cardinality(Oldest(o, n + 1)) = n + 1
    OBVIOUS
  <2>2. IsFiniteSet(Oldest(o, n)) /\ Cardinality(Oldest(o, n)) = n
    BY <1>1, <1>3, <2>1
  <2>3. \A j \in 1..(n + 1) : j \in 1..n \/ j = n + 1
    OBVIOUS
  <2>4. Oldest(o, n + 1) = Oldest(o, n) \cup {o[n + 1]}
    BY <2>3 DEF Oldest
  <2>5. \A j \in 1..n : j \in DOMAIN o /\ n + 1 \in DOMAIN o /\ j # n + 1
    BY <1>1, <2>1
  <2>6. o[n + 1] \notin Oldest(o, n)
    BY <2>5 DEF Oldest, Distinct
  <2>7. /\ IsFiniteSet(Oldest(o, n) \cup {o[n + 1]})
        /\ Cardinality(Oldest(o, n) \cup {o[n + 1]}) = Cardinality(Oldest(o, n)) + 1
    <3> HIDE DEF N
    <3> QED BY <2>2, <2>6, FS_AddElement
  <2> QED BY <2>2, <2>4, <2>7
<1>4. Nat \subseteq N
  <2> HIDE DEF N
  <2> QED BY <1>2, <1>3, NatSetInduction
<1>5. ToSet(o) = Oldest(o, Len(o))
  BY <1>1 DEF ToSet, Oldest
<1> QED BY <1>1, <1>4, <1>5

\* What the invariant says of the sizes and the order.
LEMMA InvAccounts == CacheInv => CacheAccounting
BY DistinctLength DEF CacheInv, Balanced, CacheAccounting, Stored, Held

\* An empty cache.
LEMMA CacheInvInit == CacheInit => CacheInv
<1>1. SUFFICES ASSUME CacheInit PROVE CacheInv
  OBVIOUS
<1>2. SumFunctionOnSet(entries, CacheKeys) = 0
  BY <1>1, CacheAssumption, SumZero DEF CacheInit
<1>3. Distinct(<<>>) /\ ToSet(<<>>) = {} /\ <<>> \in Seq(CacheKeys)
  BY EmptySeq DEF Distinct, ToSet
<1> QED BY <1>1, <1>2, <1>3, CacheAssumption DEF CacheInit, CacheInv, Balanced, Held

\* One key out: its size leaves the count, and the count covers it.
LEMMA TakeOut ==
  ASSUME NEW e, NEW o, NEW b, Balanced(e, o, b), NEW k \in CacheKeys
  PROVE  /\ Balanced([e EXCEPT ![k] = 0], Without(o, k), Sub(b, e[k]))
         /\ b \in Nat /\ Sub(b, e[k]) \in Nat /\ Sub(b, e[k]) <= b
<1> DEFINE f == [e EXCEPT ![k] = 0]
           rest == SumFunctionOnSet(e, CacheKeys \ {k})
<1>1. e \in [CacheKeys -> Nat] /\ f \in [CacheKeys -> Nat] /\ f[k] = 0
      /\ \A x \in CacheKeys \ {k} : f[x] = e[x]
  BY DEF Balanced
<1> HIDE DEF f
<1>2. IsFiniteSet(CacheKeys) /\ IsFiniteSet(CacheKeys \ {k})
  BY CacheAssumption, FS_Subset
<1>3. SumFunctionOnSet(e, CacheKeys) = e[k] + rest
  BY <1>1, <1>2, SumRemove
<1>4. SumFunctionOnSet(f, CacheKeys) = f[k] + SumFunctionOnSet(f, CacheKeys \ {k})
  BY <1>1, <1>2, SumRemove
<1>5. rest = SumFunctionOnSet(f, CacheKeys \ {k})
  BY <1>1, <1>2, SumSame
<1>6. rest \in Nat /\ e[k] \in Nat
  BY <1>1, <1>2, SumRecursion
<1>7. b = e[k] + rest
  BY <1>3 DEF Balanced
<1>8. SumFunctionOnSet(f, CacheKeys) = rest
  BY <1>1, <1>4, <1>5, <1>6
<1> HIDE DEF rest
<1>9. Sub(b, e[k]) = rest /\ b \in Nat /\ rest <= b
  BY <1>6, <1>7 DEF Sub
<1>10. Held(f) = Held(e) \ {k}
  BY <1>1 DEF Held
<1>11. /\ Without(o, k) \in Seq(CacheKeys) /\ Distinct(Without(o, k))
       /\ ToSet(Without(o, k)) = Held(e) \ {k}
  BY WithoutKeeps DEF Balanced
<1>12. Balanced(f, Without(o, k), Sub(b, e[k]))
  BY <1>1, <1>8, <1>9, <1>10, <1>11 DEF Balanced
<1> QED BY <1>6, <1>9, <1>12 DEF f

\* The oldest keys out: enough of them can always be found.
LEMMA EvictedFits ==
  ASSUME NEW e, NEW o, NEW b, Balanced(e, o, b), NEW n \in Nat, n <= MaxEntry
  PROVE  /\ Evicted(o, e, b, n) \in 0..Len(o)
         /\ Sub(b, Freed(o, e, Evicted(o, e, b, n))) + n <= MaxBytes
<1> DEFINE fits == {i \in 0..Len(o) : Sub(b, Freed(o, e, i)) + n <= MaxBytes}
<1>1. Len(o) \in Nat /\ DOMAIN o = 1..Len(o) /\ Len(o) \in 0..Len(o)
  BY LenProperties DEF Balanced
<1>2. Oldest(o, Len(o)) = Held(e)
  BY <1>1 DEF Oldest, Balanced, ToSet
<1>3. IsFiniteSet(CacheKeys) /\ IsFiniteSet(CacheKeys \ Held(e)) /\ Held(e) \in SUBSET CacheKeys
      /\ IsFiniteSet(Held(e))
  BY CacheAssumption, FS_Subset DEF Held
<1>4. \A x \in CacheKeys : e[x] \in Nat
  BY DEF Balanced
<1>5. \A x \in CacheKeys \ Held(e) : e[x] = 0
  BY <1>4 DEF Held
<1>6. SumFunctionOnSet(e, CacheKeys \ Held(e)) = 0
  BY <1>3, <1>5, SumZero
<1>7. SumFunctionOnSet(e, Held(e)) \in Nat
  BY <1>3, <1>4, SumRecursion
<1>8. b = SumFunctionOnSet(e, Held(e)) + SumFunctionOnSet(e, CacheKeys \ Held(e))
  BY <1>3, <1>4, SumSplit DEF Balanced
<1>9. Sub(b, Freed(o, e, Len(o))) = 0
  BY <1>2, <1>6, <1>7, <1>8 DEF Sub, Freed
<1>10. MaxEntry \in Nat /\ MaxEntry <= MaxBytes
  BY CacheAssumption DEF MaxEntry
<1>11. Len(o) \in fits
  BY <1>1, <1>9, <1>10, CacheAssumption
<1>12. fits \in SUBSET Nat /\ fits # {}
  BY <1>11
<1>13. Evicted(o, e, b, n) = Min(fits)
  BY <1>12 DEF Evicted
<1> HIDE DEF fits
<1>14. \E x \in fits : \A y \in fits : x <= y
  BY <1>12, NatLeast
<1>15. Min(fits) \in fits
  BY <1>14 DEF Min
<1> QED BY <1>13, <1>15 DEF fits

\* What is left after c keys were popped.
LEMMA PopOldest ==
  ASSUME NEW e, NEW o, NEW b, Balanced(e, o, b), NEW c \in 0..Len(o)
  PROVE  Balanced([x \in CacheKeys |-> IF x \in Oldest(o, c) THEN 0 ELSE e[x]],
                  SubSeq(o, c + 1, Len(o)), Sub(b, Freed(o, e, c)))
<1> DEFINE gone == Oldest(o, c)
           g == [x \in CacheKeys |-> IF x \in gone THEN 0 ELSE e[x]]
           t == SubSeq(o, c + 1, Len(o))
           rest == SumFunctionOnSet(e, CacheKeys \ gone)
<1>1. /\ Len(o) \in Nat /\ DOMAIN o = 1..Len(o) /\ o \in Seq(CacheKeys)
      /\ e \in [CacheKeys -> Nat] /\ b = SumFunctionOnSet(e, CacheKeys)
  BY LenProperties DEF Balanced
<1>2. \A j \in 1..c : j \in 1..Len(o) /\ o[j] \in CacheKeys
  BY <1>1
<1>3. gone \in SUBSET CacheKeys
  BY <1>2 DEF Oldest
<1>4. IsFiniteSet(CacheKeys) /\ IsFiniteSet(gone) /\ IsFiniteSet(CacheKeys \ gone)
  BY <1>3, CacheAssumption, FS_Subset
<1>5. /\ g \in [CacheKeys -> Nat]
      /\ \A x \in gone : g[x] = 0
      /\ \A x \in CacheKeys \ gone : g[x] = e[x]
  BY <1>1, <1>3
<1> HIDE DEF gone, g
<1>6. SumFunctionOnSet(g, gone) = 0
  BY <1>4, <1>5, SumZero
<1>7. SumFunctionOnSet(e, CacheKeys \ gone) = SumFunctionOnSet(g, CacheKeys \ gone)
  BY <1>1, <1>4, <1>5, SumSame
<1>8. SumFunctionOnSet(g, CacheKeys)
        = SumFunctionOnSet(g, gone) + SumFunctionOnSet(g, CacheKeys \ gone)
  BY <1>3, <1>4, <1>5, SumSplit
<1>9. b = SumFunctionOnSet(e, gone) + rest
  BY <1>1, <1>3, <1>4, SumSplit
<1>10. SumFunctionOnSet(e, gone) \in Nat /\ rest \in Nat
  BY <1>1, <1>3, <1>4, SumRecursion
<1>11. Freed(o, e, c) = SumFunctionOnSet(e, gone)
  BY DEF Freed, gone
<1>12. Sub(b, Freed(o, e, c)) = rest
  <2> HIDE DEF rest
  <2> QED BY <1>9, <1>10, <1>11 DEF Sub
<1>13. Sub(b, Freed(o, e, c)) = SumFunctionOnSet(g, CacheKeys)
  BY <1>6, <1>7, <1>8, <1>10, <1>12
<1>14. /\ t \in Seq(CacheKeys) /\ Len(t) = Len(o) - c
       /\ \A i \in 1..(Len(o) - c) : t[i] = o[c + i]
  <2> DEFINE m == c + 1
  <2>1. m \in 1..(Len(o) + 1) /\ Len(o) \in m - 1..Len(o) /\ Len(o) - m + 1 = Len(o) - c
    BY <1>1
  <2>2. \A i \in 1..(Len(o) - c) : m + i - 1 = c + i
    BY <1>1
  <2> HIDE DEF m
  <2>3. /\ SubSeq(o, m, Len(o)) \in Seq(CacheKeys)
        /\ Len(SubSeq(o, m, Len(o))) = Len(o) - m + 1
        /\ \A i \in 1..(Len(o) - m + 1) : SubSeq(o, m, Len(o))[i] = o[m + i - 1]
    BY <1>1, <2>1, SubSeqProperties
  <2> QED BY <2>1, <2>2, <2>3 DEF m
<1> HIDE DEF t
<1>15. DOMAIN t = 1..(Len(o) - c)
  BY <1>14, LenProperties
<1>16. \A i \in 1..(Len(o) - c) : c + i \in 1..Len(o) /\ c + i \notin 1..c
  BY <1>1
<1>17. Distinct(t)
  <2>1. SUFFICES ASSUME NEW i \in 1..(Len(o) - c), NEW j \in 1..(Len(o) - c), t[i] = t[j]
                 PROVE  i = j
    BY <1>15 DEF Distinct
  <2>2. o[c + i] = o[c + j] /\ c + i \in DOMAIN o /\ c + j \in DOMAIN o
    BY <1>1, <1>14, <1>16, <2>1
  <2>3. c + i = c + j
    BY <2>2 DEF Balanced, Distinct
  <2> QED BY <1>1, <2>3
<1>18. \A j \in 1..Len(o) : j \in 1..c \/ (j - c \in 1..(Len(o) - c) /\ c + (j - c) = j)
  BY <1>1
<1>19. ToSet(t) = ToSet(o) \ gone
  <2>1. ASSUME NEW i \in 1..(Len(o) - c) PROVE t[i] \in ToSet(o) \ gone
    <3>1. c + i \in DOMAIN o /\ t[i] = o[c + i]
      BY <1>1, <1>14, <1>16
    <3>2. ASSUME NEW j \in 1..c PROVE o[j] # o[c + i]
      <4>1. j \in DOMAIN o /\ j # c + i
        BY <1>1, <1>2, <1>16
      <4> QED BY <3>1, <4>1 DEF Balanced, Distinct
    <3> QED BY <3>1, <3>2 DEF ToSet, gone, Oldest
  <2>2. ASSUME NEW x \in ToSet(o) \ gone PROVE x \in ToSet(t)
    <3>1. PICK j \in 1..Len(o) : x = o[j]
      BY <1>1 DEF ToSet
    <3>2. j \notin 1..c
      BY <3>1 DEF gone, Oldest
    <3>3. j - c \in DOMAIN t /\ t[j - c] = x
      BY <1>14, <1>15, <1>18, <3>1, <3>2
    <3> QED BY <3>3 DEF ToSet
  <2> QED BY <1>15, <2>1, <2>2 DEF ToSet
<1>20. Held(g) = Held(e) \ gone
  BY <1>3, <1>5 DEF Held
<1>21. Balanced(g, t, Sub(b, Freed(o, e, c)))
  BY <1>5, <1>13, <1>14, <1>17, <1>19, <1>20 DEF Balanced
<1> QED BY <1>21 DEF g, gone, t

\* The new entry joins at the end.
LEMMA PushNewest ==
  ASSUME NEW e, NEW o, NEW b, Balanced(e, o, b), NEW k \in CacheKeys, e[k] = 0,
         NEW n \in Nat, n > 0
  PROVE  Balanced([e EXCEPT ![k] = n], Append(o, k), b + n)
<1> DEFINE f == [e EXCEPT ![k] = n]
           t == Append(o, k)
<1>1. /\ Len(o) \in Nat /\ DOMAIN o = 1..Len(o) /\ o \in Seq(CacheKeys)
      /\ e \in [CacheKeys -> Nat] /\ b = SumFunctionOnSet(e, CacheKeys)
  BY LenProperties DEF Balanced
<1>2. f \in [CacheKeys -> Nat] /\ f[k] = n /\ \A x \in CacheKeys \ {k} : f[x] = e[x]
  BY <1>1
<1> HIDE DEF f
<1>3. IsFiniteSet(CacheKeys) /\ IsFiniteSet(CacheKeys \ {k})
  BY CacheAssumption, FS_Subset
<1>4. b = e[k] + SumFunctionOnSet(e, CacheKeys \ {k})
  BY <1>1, <1>3, SumRemove
<1>5. SumFunctionOnSet(f, CacheKeys) = f[k] + SumFunctionOnSet(f, CacheKeys \ {k})
  BY <1>2, <1>3, SumRemove
<1>6. SumFunctionOnSet(e, CacheKeys \ {k}) = SumFunctionOnSet(f, CacheKeys \ {k})
  BY <1>1, <1>2, <1>3, SumSame
<1>7. SumFunctionOnSet(e, CacheKeys \ {k}) \in Nat
  BY <1>1, <1>3, SumRecursion
<1>8. b + n = SumFunctionOnSet(f, CacheKeys)
  BY <1>2, <1>4, <1>5, <1>6, <1>7
<1>9. /\ t \in Seq(CacheKeys) /\ DOMAIN t = 1..(Len(o) + 1)
      /\ \A i \in 1..Len(o) : t[i] = o[i]
      /\ t[Len(o) + 1] = k
  BY <1>1, AppendProperties, LenProperties
<1> HIDE DEF t
<1>10. \A i \in 1..(Len(o) + 1) : i \in 1..Len(o) \/ i = Len(o) + 1
  BY <1>1
<1>11. k \notin ToSet(o)
  BY DEF Balanced, Held
<1>12. \A i \in 1..Len(o) : o[i] # k
  BY <1>1, <1>11 DEF ToSet
<1>13. Distinct(t)
  <2>1. SUFFICES ASSUME NEW i \in 1..(Len(o) + 1), NEW j \in 1..(Len(o) + 1), t[i] = t[j]
                 PROVE  i = j
    BY <1>9 DEF Distinct
  <2>2. \A x, y \in 1..Len(o) : o[x] = o[y] => x = y
    BY <1>1 DEF Balanced, Distinct
  <2> QED BY <1>9, <1>10, <1>12, <2>1, <2>2
<1>14. ToSet(t) = ToSet(o) \cup {k}
  BY <1>1, <1>9, <1>10 DEF ToSet
<1>15. Held(f) = Held(e) \cup {k}
  BY <1>2 DEF Held
<1>16. Balanced(f, t, b + n)
  BY <1>2, <1>8, <1>9, <1>13, <1>14, <1>15 DEF Balanced
<1> QED BY <1>16 DEF f, t

-----------------------------------------------------------------------------

\* get of an expired entry.
LEMMA GetKeeps ==
  ASSUME CacheInv, NEW k \in CacheKeys, Get(k)
  PROVE  CacheInv'
<1>1. /\ Balanced([entries EXCEPT ![k] = 0], Without(order, k), Sub(bytes, entries[k]))
      /\ bytes \in Nat /\ Sub(bytes, entries[k]) \in Nat /\ Sub(bytes, entries[k]) <= bytes
  BY TakeOut DEF CacheInv
<1>2. Balanced(entries', order', bytes') /\ bytes' <= bytes /\ bytes' \in Nat
  BY <1>1 DEF Get
<1>3. bytes' <= MaxBytes
  BY <1>1, <1>2, CacheAssumption DEF CacheInv
<1>4. Balanced(entries, order, bytes)'
  BY <1>2 DEF Balanced, Distinct, Held
<1> QED BY <1>3, <1>4 DEF CacheInv

\* put: the old entry out, the oldest out, the new one in.
LEMMA PutKeeps ==
  ASSUME CacheInv, NEW k \in CacheKeys, NEW n \in Nat, Put(k, n)
  PROVE  CacheInv'
<1> DEFINE e0 == [entries EXCEPT ![k] = 0]
           b0 == Sub(bytes, entries[k])
           o0 == Without(order, k)
           cut == Evicted(o0, e0, b0, n)
           left == [x \in CacheKeys |-> IF x \in Oldest(o0, cut) THEN 0 ELSE e0[x]]
           after == Sub(b0, Freed(o0, e0, cut))
<1>1. /\ n > 0 /\ n <= MaxEntry
      /\ entries' = [x \in CacheKeys |-> IF x = k THEN n ELSE IF x \in Oldest(o0, cut) THEN 0 ELSE e0[x]]
      /\ order' = Append(SubSeq(o0, cut + 1, Len(o0)), k)
      /\ bytes' = after + n
  BY DEF Put
<1>2. Balanced(e0, o0, b0)
  BY TakeOut DEF CacheInv
<1>3. e0[k] = 0
  BY DEF CacheInv, Balanced
<1> HIDE DEF e0, b0, o0
<1>4. cut \in 0..Len(o0) /\ after + n <= MaxBytes
  BY <1>1, <1>2, EvictedFits
<1> HIDE DEF cut
<1>5. Balanced(left, SubSeq(o0, cut + 1, Len(o0)), after)
  BY <1>2, <1>4, PopOldest
<1>6. left[k] = 0
  BY <1>3
<1>7. [left EXCEPT ![k] = n] = entries'
  BY <1>1
<1> HIDE DEF left, after
<1>8. Balanced(entries', order', bytes')
  BY <1>1, <1>5, <1>6, <1>7, PushNewest
<1>9. Balanced(entries, order, bytes)'
  BY <1>8 DEF Balanced, Distinct, Held
<1> QED BY <1>1, <1>4, <1>9 DEF CacheInv

\* Every step of the cache.
LEMMA CacheStep ==
  ASSUME CacheInv, [CacheNext]_cachevars
  PROVE  CacheInv'
<1>1. ASSUME UNCHANGED <<entries, order, bytes>> PROVE CacheInv'
  BY <1>1 DEF CacheInv, Balanced, Distinct, Held
<1>2. ASSUME NEW k \in CacheKeys, Get(k) PROVE CacheInv'
  BY <1>2, GetKeeps
<1>3. ASSUME NEW k \in CacheKeys, EntryExpires(k) PROVE CacheInv'
  BY <1>1, <1>3 DEF EntryExpires
<1>4. ASSUME NEW k \in CacheKeys, NEW n \in 1..MaxBytes, StoreResponse(k, n) PROVE CacheInv'
  BY <1>4, PutKeeps, CacheAssumption DEF StoreResponse
<1> QED BY <1>1, <1>2, <1>3, <1>4 DEF CacheNext, cachevars

\* The running size is the sum of the stored responses and within max_bytes, and
\* the eviction order lists each stored key once, for every number of keys, cap
\* and sequence of replacements, expiries and evictions: the saturating
\* subtractions never saturate.
THEOREM CacheIsAccounted == CacheSpec => []CacheAccounting
<1>1. CacheInit => CacheInv
  BY CacheInvInit
<1>2. CacheInv /\ [CacheNext]_cachevars => CacheInv'
  BY CacheStep
<1> QED BY <1>1, <1>2, InvAccounts, PTL DEF CacheSpec

-----------------------------------------------------------------------------
(* The calendar and the counters of the day *)

\* Leap years from 1970 to the year before y, counted and in closed form.
LeapsBefore(y) == {k \in 1970..(y - 1) : Leap(k)}
LeapCount(y) == (y - 1) \div 4 - (y - 1) \div 100 + (y - 1) \div 400 - 477
LeapDay(y) == IF Leap(y) THEN 1 ELSE 0
LeapsTo(y) == y \div 4 - y \div 100 + y \div 400

\* One more year, one more leap day if it is a leap year.
LEMMA LeapStep ==
  ASSUME NEW y \in Nat, y >= 1970
  PROVE  /\ LeapCount(y) \in Int /\ LeapDay(y) \in {0, 1} /\ LeapCount(y + 1) = LeapCount(y) + LeapDay(y)
         /\ LeapsTo(y) = LeapCount(y) + LeapDay(y) + 477
<1> DEFINE a == (y - 1) \div 4
           b == (y - 1) \div 100
           c == (y - 1) \div 400
           d == y \div 4
           e == y \div 100
           f == y \div 400
<1>1. a \in Int /\ b \in Int /\ c \in Int /\ d \in Int /\ e \in Int /\ f \in Int OBVIOUS
<1>2. d = a + (IF y % 4 = 0 THEN 1 ELSE 0) OBVIOUS
<1>3. e = b + (IF y % 100 = 0 THEN 1 ELSE 0) OBVIOUS
<1>4. f = c + (IF y % 400 = 0 THEN 1 ELSE 0) OBVIOUS
<1>5. (y % 400 = 0 => y % 100 = 0) /\ (y % 100 = 0 => y % 4 = 0) OBVIOUS
<1>6. LeapCount(y) = a - b + c - 477 BY DEF LeapCount
<1>7. LeapCount(y + 1) = d - e + f - 477
  <2>1. (y + 1) - 1 = y OBVIOUS
  <2> QED BY <2>1 DEF LeapCount
<1>8. LeapDay(y) = IF y % 4 = 0 /\ (y % 100 # 0 \/ y % 400 = 0) THEN 1 ELSE 0 BY DEF LeapDay, Leap
<1> HIDE DEF a, b, c, d, e, f
<1>9. LeapDay(y) \in {0, 1} BY <1>8
<1>10. d - e + f - 477 = (a - b + c - 477) + LeapDay(y) BY <1>1, <1>2, <1>3, <1>4, <1>5, <1>8
<1> QED BY <1>1, <1>6, <1>7, <1>9, <1>10 DEF d, e, f, LeapsTo

\* The first day of a year.
LEMMA YearStart ==
  ASSUME NEW y \in Nat, y >= 1970
  PROVE  YearDay(y) = 365 * (y - 1970) + LeapCount(y)
<1> DEFINE N == {n \in Nat : IsFiniteSet(LeapsBefore(1970 + n)) /\ Cardinality(LeapsBefore(1970 + n)) = LeapCount(1970 + n)}
<1>1. 0 \in N
  <2>1. LeapsBefore(1970 + 0) = {} BY DEF LeapsBefore
  <2>2. LeapCount(1970 + 0) = 0 BY DEF LeapCount
  <2> QED BY <2>1, <2>2, FS_EmptySet
<1>2. ASSUME NEW n \in Nat, n \in N PROVE n + 1 \in N
  <2> DEFINE k == 1970 + n
  <2>1. k \in Nat /\ k >= 1970 /\ 1970 + (n + 1) = k + 1 OBVIOUS
  <2>2. IsFiniteSet(LeapsBefore(k)) /\ Cardinality(LeapsBefore(k)) = LeapCount(k) BY <1>2
  <2> HIDE DEF k, N
  <2>3. LeapsBefore(k + 1) = IF Leap(k) THEN LeapsBefore(k) \cup {k} ELSE LeapsBefore(k)
    <3>1. 1970..((k + 1) - 1) = (1970..(k - 1)) \cup {k} BY <2>1
    <3> QED BY <3>1 DEF LeapsBefore
  <2>4. k \notin LeapsBefore(k) BY <2>1 DEF LeapsBefore
  <2>5. LeapCount(k + 1) = LeapCount(k) + LeapDay(k) /\ LeapCount(k) \in Int BY <2>1, LeapStep
  <2>6. IsFiniteSet(LeapsBefore(k + 1)) /\ Cardinality(LeapsBefore(k + 1)) = LeapCount(k + 1)
    <3>1. CASE Leap(k)
      <4>1. IsFiniteSet(LeapsBefore(k) \cup {k}) /\ Cardinality(LeapsBefore(k) \cup {k}) = Cardinality(LeapsBefore(k)) + 1
        BY <2>2, <2>4, FS_AddElement
      <4>2. LeapCount(k + 1) = LeapCount(k) + 1 BY <2>5, <3>1 DEF LeapDay
      <4> QED BY <2>2, <2>3, <3>1, <4>1, <4>2
    <3>2. CASE ~Leap(k)
      <4>1. LeapCount(k + 1) = LeapCount(k) BY <2>5, <3>2 DEF LeapDay
      <4> QED BY <2>2, <2>3, <3>2, <4>1
    <3> QED BY <3>1, <3>2
  <2> QED BY <2>1, <2>6 DEF N
<1>3. Nat \subseteq N
  <2> HIDE DEF N
  <2> QED BY <1>1, <1>2, NatSetInduction
<1>4. y - 1970 \in Nat /\ 1970 + (y - 1970) = y OBVIOUS
<1>5. Cardinality(LeapsBefore(y)) = LeapCount(y) BY <1>3, <1>4
<1> QED BY <1>5 DEF YearDay, LeapsBefore

\* The calendar months, and the days of the year before each of them.
Months == 1..12

\* Days of the year before the first of a month.
MonthStarts == <<0, 31, 59, 90, 120, 151, 181, 212, 243, 273, 304, 334>>
MonthStart(y, m) == MonthStarts[m] + (IF m <= 2 THEN 0 ELSE LeapDay(y))

\* The table of month starts is what summing the lengths of the months gives.
LEMMA MonthStartIs ==
  ASSUME NEW y \in Nat
  PROVE  \A m \in Months : DaysBefore(y, m) = MonthStart(y, m)
<1> DEFINE f == MonthLengths(y)
           Up(m) == SumFunctionOnSet(f, 1..m)
<1>1. \A k \in 1..12 : f[k] = MonthLength(y, k) /\ f[k] \in Nat BY DEF MonthLength, MonthLengths
<1> HIDE DEF f
<1>2. ASSUME NEW m \in 1..12 PROVE Up(m) = f[m] + Up(m - 1)
  <2>1. IsFiniteSet(1..m) BY FS_Interval
  <2>2. m \in 1..m /\ (1..m) \ {m} = 1..(m - 1) /\ 1..m \subseteq 1..12 OBVIOUS
  <2>3. SumFunctionOnSet(f, 1..m) = f[m] + SumFunctionOnSet(f, (1..m) \ {m}) BY <1>1, <2>1, <2>2, SumRemove
  <2> QED BY <2>2, <2>3
<1>3. Up(0) = 0
  <2>1. 1..0 = {} /\ IsFiniteSet({}) BY FS_EmptySet
  <2> QED BY <2>1, SumRecursion
<1> HIDE DEF Up
<1>4. /\ f[1] = 31 /\ f[2] = 28 + LeapDay(y) /\ f[3] = 31 /\ f[4] = 30 /\ f[5] = 31 /\ f[6] = 30
      /\ f[7] = 31 /\ f[8] = 31 /\ f[9] = 30 /\ f[10] = 31 /\ f[11] = 30
  BY <1>1 DEF MonthLength, LeapDay
<1>5. LeapDay(y) \in {0, 1} BY DEF LeapDay
<1>6. /\ Up(1) = f[1] + Up(0) /\ Up(2) = f[2] + Up(1) /\ Up(3) = f[3] + Up(2) /\ Up(4) = f[4] + Up(3)
      /\ Up(5) = f[5] + Up(4) /\ Up(6) = f[6] + Up(5) /\ Up(7) = f[7] + Up(6) /\ Up(8) = f[8] + Up(7)
      /\ Up(9) = f[9] + Up(8) /\ Up(10) = f[10] + Up(9) /\ Up(11) = f[11] + Up(10)
  <2>1. \A m \in 1..11 : Up(m) = f[m] + Up(m - 1) BY <1>2
  <2> QED BY <2>1
<1> DEFINE l == LeapDay(y)
<1> HIDE DEF l
<1>7. /\ Up(1) = 31 /\ Up(2) = 59 + l /\ Up(3) = 90 + l /\ Up(4) = 120 + l /\ Up(5) = 151 + l /\ Up(6) = 181 + l
      /\ Up(7) = 212 + l /\ Up(8) = 243 + l /\ Up(9) = 273 + l /\ Up(10) = 304 + l /\ Up(11) = 334 + l
  <2>1. l \in {0, 1} /\ f[2] = 28 + l BY <1>4, <1>5 DEF l
  <2> QED BY <1>3, <1>4, <1>6, <2>1
<1>8. ASSUME NEW m \in 1..12 PROVE Up(m - 1) = MonthStart(y, m)
  BY <1>3, <1>5, <1>7 DEF MonthStart, MonthStarts, l
<1> QED BY <1>8 DEF DaysBefore, Up, f, Months

DayBase(y, m) == 365 * (y - 1970) + LeapCount(y) + MonthStart(y, m)

\* The day number of a date in closed form.
LEMMA DayNumberIs ==
  ASSUME NEW y \in Nat, y >= 1970, NEW m \in Months, NEW d \in Int
  PROVE  DayNumber(y, m, d) = DayBase(y, m) + d - 1 /\ DayBase(y, m) \in Int
<1>1. YearDay(y) = 365 * (y - 1970) + LeapCount(y) BY YearStart
<1>2. LeapCount(y) \in Int /\ LeapDay(y) \in {0, 1} BY LeapStep
<1>3. MonthStart(y, m) \in Int BY <1>2 DEF MonthStart, MonthStarts, Months
<1>4. DaysBefore(y, m) = MonthStart(y, m) BY MonthStartIs
<1>5. DayBase(y, m) = YearDay(y) + DaysBefore(y, m) /\ DayBase(y, m) \in Int BY <1>1, <1>2, <1>3, <1>4 DEF DayBase
<1> QED BY <1>5 DEF DayNumber

\* The steps of civil_from_days: year of the era and day of the year of a day of
\* the era, month and day of the month of a day of the year; both from March on.
DayOfEra(z) == z - (z \div 146097) * 146097
YearOfEra(e) == (e - e \div 1460 + e \div 36524 - e \div 146096) \div 365
DayOfYear(e) == e - (365 * YearOfEra(e) + YearOfEra(e) \div 4 - YearOfEra(e) \div 100)
MarchMonth(x) == (5 * x + 2) \div 153
DayOfMonth(x) == x - (153 * MarchMonth(x) + 2) \div 5 + 1
Month(x) == IF MarchMonth(x) < 10 THEN MarchMonth(x) + 3 ELSE MarchMonth(x) - 9
Civil(y, x) == <<IF Month(x) <= 2 THEN y + 1 ELSE y, Month(x), DayOfMonth(x)>>

MarchYear(D) == YearOfEra(DayOfEra(D + 719468)) + ((D + 719468) \div 146097) * 400
MarchDay(D) == DayOfYear(DayOfEra(D + 719468))

\* The steps of Hinnant's algorithm in terms of the year and day counted from March.
LEMMA CivilSteps ==
  ASSUME NEW h \in Nat
  PROVE  unix_to_ymd_utc(h) = Civil(MarchYear(h \div 24), MarchDay(h \div 24))
BY DEF unix_to_ymd_utc, DayOfEra, YearOfEra, DayOfYear, MarchMonth, DayOfMonth, Month, Civil, MarchYear, MarchDay

\* The year of the era is the one that the day falls into.
LEMMA YearOfEraIs ==
  ASSUME NEW doe \in Nat, doe <= 146096
  PROVE  LET y == YearOfEra(doe) IN
         /\ y \in Nat /\ y <= 399 /\ 365 * y + y \div 4 - y \div 100 <= doe
         /\ doe < 365 * (y + 1) + (y + 1) \div 4 - (y + 1) \div 100 \/ (y = 399 /\ doe = 146096)
<1> DEFINE a == doe \div 1460
           b == doe \div 36524
           c == doe \div 146096
           y == YearOfEra(doe)
           q4 == y \div 4
           q100 == y \div 100
           r4 == (y + 1) \div 4
           r100 == (y + 1) \div 100
<1>1. a \in Int /\ b \in Int /\ c \in Int /\ a = doe \div 1460 /\ b = doe \div 36524 /\ c = doe \div 146096
  OBVIOUS
<1>2. y = (doe - a + b - c) \div 365 BY DEF YearOfEra
<1> HIDE DEF a, b, c, y
<1>3. y \in Int BY <1>1, <1>2
<1>4. q4 \in Int /\ q100 \in Int /\ r4 \in Int /\ r100 \in Int BY <1>3
<1>5. q4 = y \div 4 /\ q100 = y \div 100 /\ r4 = (y + 1) \div 4 /\ r100 = (y + 1) \div 100 OBVIOUS
<1> HIDE DEF q4, q100, r4, r100
<1>6. /\ 0 <= y /\ y <= 399 /\ 365 * y + q4 - q100 <= doe
      /\ doe < 365 * (y + 1) + r4 - r100 \/ (y = 399 /\ doe = 146096)
  BY <1>1, <1>2, <1>3, <1>4, <1>5
<1> QED BY <1>3, <1>6 DEF y, q4, q100, r4, r100

\* The months from March on.
LEMMA MonthOf ==
  ASSUME NEW x \in Nat, x <= 365
  PROVE  LET m == Month(x)
             d == DayOfMonth(x) IN
         /\ m \in 1..12 /\ d \in Nat /\ d >= 1 /\ d <= 31 /\ (m <= 2 <=> x >= 306)
         /\ m = 2 => x = 336 + d /\ d <= 29
         /\ m = 1 => x = 305 + d
         /\ m >= 3 => x = MonthStarts[m] - 59 + d - 1 /\ (m \in {4, 6, 9, 11} => d <= 30)
<1> DEFINE p == MarchMonth(x)
           d == DayOfMonth(x)
           m == Month(x)
<1>1. p \in 0..11 /\ p = (5 * x + 2) \div 153 BY DEF MarchMonth
<1>2. d = x - (153 * p + 2) \div 5 + 1 BY DEF DayOfMonth
<1>3. m = IF p < 10 THEN p + 3 ELSE p - 9 BY DEF Month
<1> HIDE DEF p, d, m
<1>4. /\ p = 0 => x \in 0..30 /\ d = x + 1
      /\ p = 1 => x \in 31..60 /\ d = x - 30
      /\ p = 2 => x \in 61..91 /\ d = x - 60
      /\ p = 3 => x \in 92..121 /\ d = x - 91
      /\ p = 4 => x \in 122..152 /\ d = x - 121
      /\ p = 5 => x \in 153..183 /\ d = x - 152
  BY <1>1, <1>2
<1>5. /\ p = 6 => x \in 184..213 /\ d = x - 183
      /\ p = 7 => x \in 214..244 /\ d = x - 213
      /\ p = 8 => x \in 245..274 /\ d = x - 244
      /\ p = 9 => x \in 275..305 /\ d = x - 274
      /\ p = 10 => x \in 306..336 /\ d = x - 305
      /\ p = 11 => x \in 337..365 /\ d = x - 336
  BY <1>1, <1>2
<1>6. m \in 1..12 /\ (p >= 10 => p = m + 9 /\ m <= 2) /\ (p < 10 => p = m - 3 /\ m >= 3) BY <1>1, <1>3
<1>7. d \in Nat /\ d >= 1 /\ d <= 31 BY <1>1, <1>4, <1>5
<1>8. m <= 2 <=> x >= 306 BY <1>1, <1>4, <1>5, <1>6
<1>9. (m = 2 => x = 336 + d /\ d <= 29) /\ (m = 1 => x = 305 + d) BY <1>1, <1>5, <1>6, <1>7
<1>10. m >= 3 => x = MonthStarts[m] - 59 + d - 1 /\ (m \in {4, 6, 9, 11} => d <= 30)
  BY <1>1, <1>4, <1>5, <1>6, <1>7 DEF MonthStarts
<1> QED BY <1>6, <1>7, <1>8, <1>9, <1>10 DEF d, m

\* Days of the years before March of year y.
Years(y) == 365 * y + LeapsTo(y)

\* The same from the years of its era, and how long a year is.
LEMMA EraYears ==
  ASSUME NEW e \in Nat, NEW k \in Nat, k <= 399, NEW y, y = k + e * 400
  PROVE  /\ y \in Nat /\ Years(y) = 146097 * e + (365 * k + k \div 4 - k \div 100)
         /\ (k + 1) \div 4 - k \div 4 - ((k + 1) \div 100 - k \div 100) <= LeapDay(y + 1)
         /\ k = 399 => LeapDay(y + 1) = 1
<1> DEFINE a == k \div 4
           b == k \div 100
<1>1. y \in Nat /\ y = k + 400 * e OBVIOUS
<1>2. y \div 4 = a + 100 * e BY <1>1
<1>3. y \div 100 = b + 4 * e BY <1>1
<1>4. y \div 400 = e BY <1>1
<1>5. a \in Nat /\ b \in Nat OBVIOUS
<1>6. (k + 1) \div 4 - a = (IF (y + 1) % 4 = 0 THEN 1 ELSE 0) BY <1>1
<1>7. (k + 1) \div 100 - b = (IF (y + 1) % 100 = 0 THEN 1 ELSE 0) BY <1>1
<1>8. k = 399 => (y + 1) % 400 = 0 BY <1>1
<1>9. ((y + 1) % 400 = 0 => (y + 1) % 100 = 0) /\ ((y + 1) % 100 = 0 => (y + 1) % 4 = 0) BY <1>1
<1>10. LeapDay(y + 1) = IF (y + 1) % 4 = 0 /\ ((y + 1) % 100 # 0 \/ (y + 1) % 400 = 0) THEN 1 ELSE 0
  BY DEF LeapDay, Leap
<1>11. Years(y) = 365 * y + (a + 100 * e) - (b + 4 * e) + e BY <1>1, <1>2, <1>3, <1>4 DEF Years, LeapsTo
<1> HIDE DEF a, b
<1>12. Years(y) = 146097 * e + (365 * k + a - b) BY <1>1, <1>5, <1>11
<1>13. k = 399 => LeapDay(y + 1) = 1 BY <1>8, <1>9, <1>10
<1>14. ((k + 1) \div 4 - a) - ((k + 1) \div 100 - b) <= LeapDay(y + 1) BY <1>6, <1>7, <1>9, <1>10
<1> QED BY <1>1, <1>12, <1>13, <1>14 DEF a, b

\* A year and a day of it, from March on.
LEMMA MarchDate ==
  ASSUME NEW D \in Nat
  PROVE  /\ MarchYear(D) \in Nat /\ MarchDay(D) \in Nat /\ MarchDay(D) <= 364 + LeapDay(MarchYear(D) + 1)
         /\ Years(MarchYear(D)) \in Int /\ D = Years(MarchYear(D)) + MarchDay(D) - 719468
<1> DEFINE z == D + 719468
           era == z \div 146097
           doe == DayOfEra(z)
           k == YearOfEra(doe)
           y == k + era * 400
           x == DayOfYear(doe)
<1>0. MarchYear(D) = y /\ MarchDay(D) = x BY DEF MarchYear, MarchDay
<1>1. z \in Nat OBVIOUS
<1>2. era \in Nat /\ doe \in Nat /\ doe <= 146096 /\ z = 146097 * era + doe BY <1>1 DEF DayOfEra
<1>3. z = D + 719468 OBVIOUS
<1> HIDE DEF z, era, doe
<1>4. /\ k \in Nat /\ k <= 399 /\ 365 * k + k \div 4 - k \div 100 <= doe
      /\ doe < 365 * (k + 1) + (k + 1) \div 4 - (k + 1) \div 100 \/ (k = 399 /\ doe = 146096)
  BY <1>2, YearOfEraIs
<1>5. x = doe - (365 * k + k \div 4 - k \div 100) BY DEF DayOfYear
<1> HIDE DEF k, x
<1>6. /\ y \in Nat /\ Years(y) = 146097 * era + (365 * k + k \div 4 - k \div 100)
      /\ (k + 1) \div 4 - k \div 4 - ((k + 1) \div 100 - k \div 100) <= LeapDay(y + 1)
      /\ k = 399 => LeapDay(y + 1) = 1
  BY <1>2, <1>4, EraYears
<1>7. LeapDay(y + 1) \in {0, 1} BY DEF LeapDay
<1> HIDE DEF y
<1> DEFINE a == k \div 4
           b == k \div 100
           c == (k + 1) \div 4
           f == (k + 1) \div 100
           l == LeapDay(y + 1)
           w == Years(y)
<1>8. a \in Nat /\ b \in Nat /\ c \in Nat /\ f \in Nat /\ (k = 399 => a = 99 /\ b = 3) BY <1>4
<1>9. /\ 365 * k + a - b <= doe /\ x = doe - (365 * k + a - b) /\ w = 146097 * era + (365 * k + a - b)
      /\ (doe < 365 * (k + 1) + c - f \/ (k = 399 /\ doe = 146096)) /\ c - a - (f - b) <= l
      /\ (k = 399 => l = 1) /\ l \in {0, 1}
  BY <1>4, <1>5, <1>6, <1>7
<1> HIDE DEF a, b, c, f, l, w
<1>10. x \in Nat /\ w \in Int BY <1>2, <1>4, <1>8, <1>9
<1>11. x <= 364 + l BY <1>2, <1>4, <1>8, <1>9, <1>10
<1>12. D = w + x - 719468 BY <1>2, <1>3, <1>4, <1>8, <1>9, <1>10
<1> QED BY <1>0, <1>6, <1>10, <1>11, <1>12 DEF w, l

\* The date is in 1970 or later.
LEMMA SinceEpoch ==
  ASSUME NEW y \in Nat, NEW x \in Nat, x <= 365, Years(y) + x >= 719468
  PROVE  y >= 1969 /\ (y = 1969 => x >= 306)
<1>1. (y <= 1968 => Years(y) <= 718797) /\ (y = 1969 => Years(y) = 719162) /\ Years(y) \in Int BY DEF Years, LeapsTo
<1> QED BY <1>1

\* A date of the calendar.
GoodKey(k) == k \in KeyShape /\ k[1] >= 1970 /\ k[3] <= MonthLength(k[1], k[2])
KeyDay(k) == DayNumber(k[1], k[2], k[3])

\* civil_from_days of the code gives the date of every day since 1970.
LEMMA CivilDate ==
  ASSUME NEW h \in Nat
  PROVE  GoodKey(unix_to_ymd_utc(h)) /\ KeyDay(unix_to_ymd_utc(h)) = h \div 24
<1> DEFINE D == h \div 24
           y0 == MarchYear(D)
           x == MarchDay(D)
           m == Month(x)
           d == DayOfMonth(x)
           y == IF m <= 2 THEN y0 + 1 ELSE y0
<1>1. D \in Nat OBVIOUS
<1>2. unix_to_ymd_utc(h) = <<y, m, d>>
  <2>1. unix_to_ymd_utc(h) = Civil(y0, x) BY CivilSteps
  <2> HIDE DEF y0, x
  <2> QED BY <2>1 DEF Civil
<1> HIDE DEF D
<1>3. /\ y0 \in Nat /\ x \in Nat /\ x <= 364 + LeapDay(y0 + 1) /\ Years(y0) \in Int
      /\ D = Years(y0) + x - 719468
  BY <1>1, MarchDate
<1> HIDE DEF y0, x
<1>4. LeapDay(y0 + 1) \in {0, 1} BY DEF LeapDay
<1>5. x <= 365 /\ Years(y0) + x >= 719468 BY <1>1, <1>3, <1>4
<1>6. y0 >= 1969 /\ (y0 = 1969 => x >= 306) BY <1>3, <1>5, SinceEpoch
<1>7. /\ m \in 1..12 /\ d \in Nat /\ d >= 1 /\ d <= 31 /\ (m <= 2 <=> x >= 306)
      /\ m = 2 => x = 336 + d /\ d <= 29
      /\ m = 1 => x = 305 + d
      /\ m >= 3 => x = MonthStarts[m] - 59 + d - 1 /\ (m \in {4, 6, 9, 11} => d <= 30)
  BY <1>3, <1>5, MonthOf
<1> HIDE DEF m, d
<1>8. y \in Nat /\ y >= 1970 BY <1>3, <1>6, <1>7
<1>9. d <= MonthLength(y, m)
  <2>1. CASE m = 2
    <3>1. d <= 28 + LeapDay(y0 + 1) /\ y = y0 + 1 BY <1>3, <1>4, <1>7, <2>1
    <3>2. MonthLength(y, m) = 28 + LeapDay(y) BY <2>1 DEF MonthLength, LeapDay
    <3> QED BY <3>1, <3>2
  <2>2. CASE m # 2
    <3>1. MonthLength(y, m) = IF m \in {4, 6, 9, 11} THEN 30 ELSE 31 BY <2>2 DEF MonthLength
    <3> QED BY <1>7, <2>2, <3>1
  <2> QED BY <2>1, <2>2
<1>10. DayNumber(y, m, d) = D
  <2>1. DayNumber(y, m, d) = DayBase(y, m) + d - 1 /\ LeapCount(y) \in Int /\ MonthStart(y, m) \in Int
    <3>1. m \in Months /\ d \in Int BY <1>7 DEF Months
    <3> HIDE DEF y
    <3>2. DayNumber(y, m, d) = DayBase(y, m) + d - 1 BY <1>8, <3>1, DayNumberIs
    <3>3. LeapCount(y) \in Int /\ LeapDay(y) \in {0, 1} BY <1>8, LeapStep
    <3>4. MonthStart(y, m) \in Int BY <3>1, <3>3 DEF MonthStart, MonthStarts, Months
    <3> QED BY <3>2, <3>3, <3>4
  <2>2. CASE m <= 2
    <3>1. y = y0 + 1 /\ y - 1 = y0 BY <1>3, <2>2
    <3> HIDE DEF y
    <3>2. LeapCount(y) = LeapsTo(y0) - 477 /\ LeapsTo(y0) \in Int BY <1>3, <3>1 DEF LeapCount, LeapsTo
    <3>3. 365 * (y - 1970) + LeapCount(y) = Years(y0) - 719162 BY <1>3, <3>1, <3>2 DEF Years
    <3>4. MonthStart(y, m) = (IF m = 1 THEN 0 ELSE 31) BY <1>7, <2>2 DEF MonthStart, MonthStarts
    <3>5. MonthStart(y, m) + d - 1 = x - 306 BY <1>3, <1>7, <2>2, <3>4
    <3> QED BY <1>3, <1>7, <1>8, <2>1, <3>3, <3>5 DEF DayBase
  <2>3. CASE m > 2
    <3>1. y = y0 BY <1>7, <2>3
    <3> HIDE DEF y
    <3>2. LeapsTo(y) = LeapCount(y) + LeapDay(y) + 477 /\ LeapDay(y) \in {0, 1}
      BY <1>8, LeapStep
    <3>3. 365 * (y - 1970) + LeapCount(y) + LeapDay(y) = Years(y0) - 719527
      BY <1>3, <1>8, <2>1, <3>1, <3>2 DEF Years
    <3>4. MonthStart(y, m) = MonthStarts[m] + LeapDay(y) BY <1>7, <2>3 DEF MonthStart
    <3>5. MonthStarts[m] \in Int BY <1>7 DEF MonthStarts
    <3>6. MonthStarts[m] + d - 1 = x + 59 BY <1>3, <1>7, <2>3, <3>5
    <3> QED BY <1>3, <1>7, <1>8, <2>1, <3>2, <3>3, <3>4, <3>5, <3>6 DEF DayBase
  <2> QED BY <1>7, <2>2, <2>3
<1>11. <<y, m, d>> \in KeyShape
  <2> HIDE DEF y
  <2> QED BY <1>7, <1>8 DEF KeyShape
<1> HIDE DEF y
<1>12. GoodKey(<<y, m, d>>) /\ KeyDay(<<y, m, d>>) = D BY <1>8, <1>9, <1>10, <1>11 DEF GoodKey, KeyDay
<1> QED BY <1>2, <1>12 DEF D

\* A year lasts 365 days or 366, and later years start later.
LEMMA NextYear ==
  ASSUME NEW y \in Nat, y >= 1970
  PROVE  /\ YearDay(y) \in Int /\ YearDay(y) >= 365 * (y - 1970) /\ LeapDay(y) \in {0, 1}
         /\ YearDay(y + 1) = YearDay(y) + 365 + LeapDay(y)
<1>1. YearDay(y) = 365 * (y - 1970) + LeapCount(y) BY YearStart
<1>2. YearDay(y + 1) = 365 * ((y + 1) - 1970) + LeapCount(y + 1)
  <2>1. y + 1 \in Nat /\ y + 1 >= 1970 OBVIOUS
  <2> QED BY <2>1, YearStart
<1>3. LeapCount(y) \in Int /\ LeapDay(y) \in {0, 1} /\ LeapCount(y + 1) = LeapCount(y) + LeapDay(y) BY LeapStep
<1>4. LeapCount(y) >= 0 BY DEF LeapCount
<1> QED BY <1>1, <1>2, <1>3, <1>4

\* A later year starts no earlier than the year after this one ends.
LEMMA LaterYear ==
  ASSUME NEW y \in Nat, y >= 1970, NEW w \in Nat, w > y
  PROVE  YearDay(w) \in Int /\ YearDay(w) >= YearDay(y + 1)
<1> DEFINE v == y + 1
<1>1. v \in Nat /\ v >= 1970 /\ w >= v /\ w >= 1970 OBVIOUS
<1> HIDE DEF v
<1>2. YearDay(v) = 365 * (v - 1970) + LeapCount(v) /\ YearDay(w) = 365 * (w - 1970) + LeapCount(w)
  BY <1>1, YearStart
<1>3. LeapCount(v) \in Int /\ LeapCount(w) \in Int BY <1>1, LeapStep
<1>4. LeapCount(w) - LeapCount(v) >= v - w BY <1>1 DEF LeapCount
<1>5. YearDay(w) \in Int /\ YearDay(w) >= YearDay(v) BY <1>1, <1>2, <1>3, <1>4
<1> QED BY <1>5 DEF v

\* The date of a day lies in the year the day falls into, and in the month.
LEMMA DateInYear ==
  ASSUME NEW y \in Nat, y >= 1970, NEW m \in Months, NEW d \in 1..31, d <= MonthLength(y, m)
  PROVE  /\ DayNumber(y, m, d) = YearDay(y) + MonthStart(y, m) + d - 1
         /\ MonthStart(y, m) \in Int
         /\ YearDay(y) <= DayNumber(y, m, d) /\ DayNumber(y, m, d) < YearDay(y + 1)
<1>1. DaysBefore(y, m) = MonthStart(y, m) BY MonthStartIs
<1>2. YearDay(y) \in Int /\ LeapDay(y) \in {0, 1} /\ YearDay(y + 1) = YearDay(y) + 365 + LeapDay(y) BY NextYear
<1>3. m \in 1..12 BY DEF Months
<1>4. MonthLength(y, m) = IF m = 2 THEN 28 + LeapDay(y) ELSE IF m \in {4, 6, 9, 11} THEN 30 ELSE 31
  BY <1>3 DEF MonthLength, LeapDay
<1>5. MonthStart(y, m) \in Int /\ MonthStart(y, m) >= 0 /\ MonthStart(y, m) + d - 1 < 365 + LeapDay(y)
  BY <1>2, <1>3, <1>4 DEF MonthStart, MonthStarts
<1> QED BY <1>1, <1>2, <1>5 DEF DayNumber

\* Seven days in a row have one Sunday.
LEMMA OneSunday ==
  ASSUME NEW f \in Int, NEW s \in f..(f + 6), IsSunday(s)
  PROVE  (CHOOSE day \in f..(f + 6) : IsSunday(day)) = s
<1>1. ASSUME NEW t \in f..(f + 6), IsSunday(t) PROVE t = s BY <1>1 DEF IsSunday
<1> QED BY <1>1

\* The days of the year on which the code changes the clocks.
SpringDay(y) == YearDay(y) + MonthStart(y, 3) + nth_sunday_of_month(y, 3, 2) - 1
AutumnDay(y) == YearDay(y) + MonthStart(y, 11) + nth_sunday_of_month(y, 11, 1) - 1

\* nth_sunday_of_month finds the second Sunday of March and the first of November.
LEMMA ClockChanges ==
  ASSUME NEW y \in Nat, y >= 1970
  PROVE  /\ nth_sunday_of_month(y, 3, 2) \in 8..14 /\ nth_sunday_of_month(y, 11, 1) \in 1..7
         /\ Sunday(y, 3, 2) = SpringDay(y) /\ Sunday(y, 11, 1) = AutumnDay(y)
<1> DEFINE q == LeapsTo(y)
           n == nth_sunday_of_month(y, 3, 2)
           k == nth_sunday_of_month(y, 11, 1)
           w == (y + q + 3) % 7
           b == YearDay(y)
           l == LeapDay(y)
<1>0. q \in Int BY DEF LeapsTo
<1>1. q \in Int /\ w \in 0..6 /\ w = (y + q + 3) % 7
  <2> HIDE DEF q
  <2> QED BY <1>0
<1>2. w = (y + y \div 4 - y \div 100 + y \div 400 + 2 + 1) % 7
  <2>1. y + y \div 4 - y \div 100 + y \div 400 + 2 + 1 = y + q + 3 BY DEF LeapsTo
  <2> QED BY <2>1
<1>3. n = (IF w = 0 THEN 1 ELSE 8 - w) + 7 /\ k = IF w = 0 THEN 1 ELSE 8 - w
  <2> HIDE DEF w, q
  <2> QED BY <1>1, <1>2 DEF nth_sunday_of_month, MonthShift
<1>4. b = 365 * (y - 1970) + LeapCount(y) BY YearStart
<1>5. LeapCount(y) \in Int /\ l \in {0, 1} /\ q = LeapCount(y) + l + 477 BY LeapStep
<1>6. MonthStart(y, 3) = 59 + l /\ MonthStart(y, 11) = 304 + l BY DEF MonthStart, MonthStarts
<1> HIDE DEF q, n, k, w, b, l
<1>7. b \in Int /\ b + l = 365 * (y - 1970) + q - 477 BY <1>0, <1>4, <1>5
<1> DEFINE f == b + l + 59
<1>8. f \in Int /\ f = 365 * y + q - 719468
  <2>1. l \in Int BY <1>5
  <2> QED BY <1>0, <1>7, <2>1
<1> HIDE DEF f
<1>9. n \in 8..14 /\ k \in 1..7 /\ n = k + 7 BY <1>1, <1>3
<1>10. (f + k - 1 + 4) % 7 = 0
  <2>1. f = 365 * y + q - 719468 /\ q \in Int BY <1>1, <1>8
  <2>2. k = (IF w = 0 THEN 1 ELSE 8 - w) /\ w = (y + q + 3) % 7 BY <1>1, <1>3
  <2> QED BY <2>1, <2>2
<1>11. DayNumber(y, 3, 1) = f /\ DayNumber(y, 11, 1) = f + 245
  <2>1. 3 \in Months /\ 11 \in Months BY DEF Months
  <2>2. DaysBefore(y, 3) = MonthStart(y, 3) /\ DaysBefore(y, 11) = MonthStart(y, 11) BY <2>1, MonthStartIs
  <2> QED BY <1>5, <1>6, <1>7, <2>2 DEF DayNumber, f, b
<1>12. Sunday(y, 3, 2) = f + n - 1
  <2>1. f + 7 * (2 - 1) = f + 7 /\ f + 7 * 2 - 1 = (f + 7) + 6 BY <1>8
  <2>2. f + n - 1 \in (f + 7)..((f + 7) + 6) BY <1>8, <1>9
  <2>3. IsSunday(f + n - 1) BY <1>8, <1>9, <1>10 DEF IsSunday
  <2>4. (CHOOSE day \in (f + 7)..((f + 7) + 6) : IsSunday(day)) = f + n - 1
    <3>1. f + 7 \in Int BY <1>8
    <3> QED BY <2>2, <2>3, <3>1, OneSunday
  <2> QED BY <1>11, <2>1, <2>4 DEF Sunday
<1>13. Sunday(y, 11, 1) = f + 245 + k - 1
  <2> DEFINE g == f + 245
  <2>1. g \in Int /\ g + 7 * (1 - 1) = g /\ g + 7 * 1 - 1 = g + 6 BY <1>8
  <2>2. g + k - 1 \in g..(g + 6) /\ IsSunday(g + k - 1) BY <1>8, <1>9, <1>10 DEF IsSunday
  <2>3. DayNumber(y, 11, 1) = g BY <1>11
  <2> HIDE DEF g
  <2>4. (CHOOSE day \in g..(g + 6) : IsSunday(day)) = g + k - 1 BY <2>1, <2>2, OneSunday
  <2>5. Sunday(y, 11, 1) = g + k - 1 BY <2>1, <2>3, <2>4 DEF Sunday
  <2> QED BY <2>5 DEF g
<1>14. SpringDay(y) = f + n - 1 /\ AutumnDay(y) = f + 245 + k - 1
  BY <1>5, <1>6, <1>7, <1>9 DEF SpringDay, AutumnDay, f, b, n, k
<1> QED BY <1>9, <1>12, <1>13, <1>14 DEF n, k

\* The code is on DST from the one to the other.
LEMMA DstOfDate ==
  ASSUME NEW y \in Nat, y >= 1970, NEW m \in Months, NEW d \in 1..31, d <= MonthLength(y, m)
  PROVE  pacific_is_dst(y, m, d) <=> SpringDay(y) <= DayNumber(y, m, d) /\ DayNumber(y, m, d) < AutumnDay(y)
<1> DEFINE n == nth_sunday_of_month(y, 3, 2)
           k == nth_sunday_of_month(y, 11, 1)
           b == YearDay(y)
           l == LeapDay(y)
           s == MonthStart(y, m)
<1>1. n \in 8..14 /\ k \in 1..7 BY ClockChanges
<1>2. DayNumber(y, m, d) = b + s + d - 1 /\ s \in Int BY DateInYear
<1>3. b \in Int /\ l \in {0, 1} BY NextYear
<1>4. m \in 1..12 BY DEF Months
<1>5. d <= (IF m = 2 THEN 28 + l ELSE IF m \in {4, 6, 9, 11} THEN 30 ELSE 31) BY DEF MonthLength, LeapDay
<1>6. SpringDay(y) = b + 59 + l + n - 1 /\ AutumnDay(y) = b + 304 + l + k - 1
  <2>1. MonthStart(y, 3) = 59 + l /\ MonthStart(y, 11) = 304 + l BY DEF MonthStart, MonthStarts
  <2> HIDE DEF b, l, n, k
  <2> QED BY <1>1, <1>3, <2>1 DEF SpringDay, AutumnDay, b, n, k
<1>7. s = MonthStarts[m] + (IF m <= 2 THEN 0 ELSE l) BY DEF MonthStart
<1>8. pacific_is_dst(y, m, d) <=> (m \in 4..10 \/ (m = 3 /\ d >= n) \/ (m = 11 /\ d < k)) BY DEF pacific_is_dst
<1> HIDE DEF n, k, b, l, s
<1>9. (m \in 4..10 \/ (m = 3 /\ d >= n) \/ (m = 11 /\ d < k)) <=> 59 + l + n <= s + d /\ s + d < 304 + l + k
  <2>1. CASE m \in {1, 2} BY <1>1, <1>3, <1>5, <1>7, <2>1 DEF MonthStarts
  <2>2. CASE m = 3 BY <1>1, <1>3, <1>7, <2>2 DEF MonthStarts
  <2>3. CASE m \in 4..10 BY <1>1, <1>3, <1>5, <1>7, <2>3 DEF MonthStarts
  <2>4. CASE m = 11 BY <1>1, <1>3, <1>7, <2>4 DEF MonthStarts
  <2>5. CASE m = 12 BY <1>1, <1>3, <1>7, <2>5 DEF MonthStarts
  <2> QED BY <1>4, <2>1, <2>2, <2>3, <2>4, <2>5
<1> QED BY <1>1, <1>2, <1>3, <1>6, <1>8, <1>9

\* Where the two days lie in their year.
LEMMA ClockDays ==
  ASSUME NEW y \in Nat, y >= 1970
  PROVE  /\ SpringDay(y) \in Int /\ AutumnDay(y) \in Int
         /\ YearDay(y) + 66 <= SpringDay(y) /\ SpringDay(y) + 200 <= AutumnDay(y)
         /\ AutumnDay(y) + 50 <= YearDay(y + 1)
<1> DEFINE n == nth_sunday_of_month(y, 3, 2)
           k == nth_sunday_of_month(y, 11, 1)
           b == YearDay(y)
           l == LeapDay(y)
<1>1. n \in 8..14 /\ k \in 1..7 BY ClockChanges
<1>2. b \in Int /\ l \in {0, 1} /\ YearDay(y + 1) = b + 365 + l BY NextYear
<1>3. MonthStart(y, 3) = 59 + l /\ MonthStart(y, 11) = 304 + l BY DEF MonthStart, MonthStarts
<1>4. SpringDay(y) = b + MonthStart(y, 3) + n - 1 /\ AutumnDay(y) = b + MonthStart(y, 11) + k - 1
  BY DEF SpringDay, AutumnDay
<1> HIDE DEF n, k, b, l
<1>5. SpringDay(y) = b + 59 + l + n - 1 /\ AutumnDay(y) = b + 304 + l + k - 1 BY <1>1, <1>2, <1>3, <1>4
<1>6. b + 66 <= b + 59 + l + n - 1 /\ (b + 59 + l + n - 1) + 200 <= b + 304 + l + k - 1
      /\ (b + 304 + l + k - 1) + 50 <= b + 365 + l BY <1>1, <1>2
<1>7. b + 59 + l + n - 1 \in Int /\ b + 304 + l + k - 1 \in Int BY <1>1, <1>2
<1> QED BY <1>2, <1>5, <1>6, <1>7 DEF b

\* A good key is a date in the year that its day falls into.
LEMMA KeyInYear ==
  ASSUME NEW k, GoodKey(k), NEW y \in Nat, y >= 1970, YearDay(y) <= KeyDay(k), KeyDay(k) < YearDay(y + 1)
  PROVE  k[1] = y
<1>1. k[1] \in Nat /\ k[1] >= 1970 /\ k[2] \in Months /\ k[3] \in 1..31 /\ k[3] <= MonthLength(k[1], k[2])
  BY DEF GoodKey, KeyShape, Months
<1> DEFINE w == k[1]
           D == KeyDay(k)
<1>2. YearDay(w) <= D /\ D < YearDay(w + 1) BY <1>1, DateInYear DEF KeyDay
<1>3. D \in Int
  <2>1. D = YearDay(w) + MonthStart(w, k[2]) + k[3] - 1 /\ MonthStart(w, k[2]) \in Int BY <1>1, DateInYear DEF KeyDay
  <2>2. YearDay(w) \in Int BY <1>1, NextYear
  <2>3. k[3] \in Int BY <1>1
  <2> HIDE DEF D, w
  <2> QED BY <2>1, <2>2, <2>3
<1>4. w \in Nat /\ w >= 1970 BY <1>1
<1>5. YearDay(y) <= D /\ D < YearDay(y + 1) OBVIOUS
<1> HIDE DEF w, D
<1>6. YearDay(w) \in Int /\ YearDay(y) \in Int /\ YearDay(y + 1) \in Int /\ YearDay(w + 1) \in Int
  BY <1>4, NextYear
<1>7. ~(w > y) BY <1>2, <1>3, <1>4, <1>5, <1>6, LaterYear
<1>8. ~(y > w) BY <1>2, <1>3, <1>4, <1>5, <1>6, LaterYear
<1> QED BY <1>4, <1>7, <1>8 DEF w

\* DST by the guessed date, over a year and the first weeks of the next.
CodeDst(h) == pacific_is_dst(unix_to_ymd_utc(h - 8)[1], unix_to_ymd_utc(h - 8)[2], unix_to_ymd_utc(h - 8)[3])

\* The DST flag the code derives from the standard-time date, over the window it is asked for.
LEMMA GuessedDst ==
  ASSUME NEW y \in Nat, y >= 1970, NEW h \in Nat, h >= 8, NEW D \in Nat, D = (h - 8) \div 24,
         YearDay(y) <= D, D < YearDay(y + 1) + 60
  PROVE  CodeDst(h) <=> SpringDay(y) <= D /\ D < AutumnDay(y)
<1> DEFINE k == unix_to_ymd_utc(h - 8)
<1>1. GoodKey(k) /\ KeyDay(k) = D
  <2> DEFINE g == h - 8
  <2>1. g \in Nat /\ D = g \div 24 /\ k = unix_to_ymd_utc(g) OBVIOUS
  <2> HIDE DEF g, k
  <2> QED BY <2>1, CivilDate
<1>2. CodeDst(h) = pacific_is_dst(k[1], k[2], k[3]) BY DEF CodeDst
<1> HIDE DEF k
<1>3. k[1] \in Nat /\ k[1] >= 1970 /\ k[2] \in Months /\ k[3] \in 1..31 /\ k[3] <= MonthLength(k[1], k[2])
  BY <1>1 DEF GoodKey, KeyShape, Months
<1>4. CodeDst(h) <=> SpringDay(k[1]) <= D /\ D < AutumnDay(k[1]) BY <1>1, <1>2, <1>3, DstOfDate DEF KeyDay
<1>5. CASE D < YearDay(y + 1)
  <2>1. k[1] = y BY <1>1, <1>5, KeyInYear
  <2> QED BY <1>4, <2>1
<1>6. CASE ~(D < YearDay(y + 1))
  <2> DEFINE w == y + 1
  <2>1. w \in Nat /\ w >= 1970 OBVIOUS
  <2>2. YearDay(w) \in Int /\ YearDay(w + 1) = YearDay(w) + 365 + LeapDay(w) /\ LeapDay(w) \in {0, 1}
    <3> HIDE DEF w
    <3> QED BY <2>1, NextYear
  <2>3. D < YearDay(w) + 60 /\ YearDay(w) <= D BY <1>6, <2>2
  <2>4. k[1] = w
    <3> HIDE DEF w
    <3>1. D < YearDay(w + 1) BY <2>2, <2>3
    <3> QED BY <1>1, <2>1, <2>3, <3>1, KeyInYear
  <2>5. SpringDay(w) \in Int /\ YearDay(w) + 66 <= SpringDay(w)
    <3> HIDE DEF w
    <3> QED BY <2>1, ClockDays
  <2>6. AutumnDay(y) \in Int /\ AutumnDay(y) + 50 <= YearDay(w) BY ClockDays
  <2> HIDE DEF w
  <2>7. ~(SpringDay(w) <= D) /\ ~(D < AutumnDay(y)) BY <2>2, <2>3, <2>5, <2>6
  <2> QED BY <1>4, <2>4, <2>7
<1> QED BY <1>5, <1>6

\* Hours of a year after its first day, and of the first weeks of the next.
InWindow(y, h) == h \in Nat /\ 24 * YearDay(y) + 24 <= h /\ h < 24 * YearDay(y + 1) + 1440

\* The offset that is in force.
LEMMA OffsetIs ==
  ASSUME NEW y \in Nat, y >= 1970, NEW h \in Int
  PROVE  TrueOffset(y, h) = IF h >= 24 * SpringDay(y) + 10 /\ h < 24 * AutumnDay(y) + 9 THEN 7 ELSE 8
<1>1. Sunday(y, 3, 2) = SpringDay(y) /\ Sunday(y, 11, 1) = AutumnDay(y) BY ClockChanges
<1> QED BY <1>1 DEF TrueOffset

\* The code's offset differs from it for three hours, and for none of them the day does.
LEMMA SameDay ==
  ASSUME NEW s \in Int, NEW n \in Int, s + 200 <= n, NEW h \in Nat, NEW o, NEW t,
         o = IF s <= (h - 8) \div 24 /\ (h - 8) \div 24 < n THEN 7 ELSE 8,
         t = IF h >= 24 * s + 10 /\ h < 24 * n + 9 THEN 7 ELSE 8
  PROVE  (h - o) \div 24 = (h - t) \div 24
<1>1. o = IF h >= 24 * s + 8 /\ h < 24 * n + 8 THEN 7 ELSE 8 OBVIOUS
<1>2. CASE o = t BY <1>2
<1>3. CASE o # t
  <2>1. h = 24 * s + 8 \/ h = 24 * s + 9 \/ h = 24 * n + 8 BY <1>1, <1>3
  <2>2. CASE h = 24 * s + 8 \/ h = 24 * s + 9
    <3>1. o = 7 /\ t = 8 BY <1>1, <2>2
    <3>2. (h - 7) \div 24 = s /\ (h - 8) \div 24 = s BY <2>2
    <3> QED BY <3>1, <3>2
  <2>3. CASE h = 24 * n + 8
    <3>1. o = 8 /\ t = 7 BY <1>1, <2>3
    <3>2. (h - 7) \div 24 = n /\ (h - 8) \div 24 = n BY <2>3
    <3> QED BY <3>1, <3>2
  <2> QED BY <2>1, <2>2, <2>3
<1> QED BY <1>2, <1>3

\* At every hour of the window the key is the Pacific date, and the countdown
\* to midnight is off by an hour at most.
LEMMA PacificDay ==
  ASSUME NEW y \in Nat, y >= 1970, NEW h, InWindow(y, h)
  PROVE  /\ GoodKey(current_pt_day_key(h)) /\ KeyDay(current_pt_day_key(h)) = TrueDay(y, h) /\ TrueDay(y, h) \in Nat
         /\ Dist(hours_until_pacific_midnight(h), UntilTrueMidnight(y, h)) <= 1
<1> DEFINE s == SpringDay(y)
           n == AutumnDay(y)
           D == (h - 8) \div 24
           o == IF s <= D /\ D < n THEN 7 ELSE 8
           t == TrueOffset(y, h)
           p == h - o
           e == p \div 24
           a == YearDay(y)
           b == YearDay(y + 1)
<1>1. a \in Nat /\ b \in Nat
  <2>1. YearDay(y) \in Int /\ YearDay(y) >= 365 * (y - 1970) /\ LeapDay(y) \in {0, 1}
        /\ YearDay(y + 1) = YearDay(y) + 365 + LeapDay(y) BY NextYear
  <2> QED BY <2>1
<1>2. h \in Nat /\ 24 * a + 24 <= h /\ h < 24 * b + 1440 BY DEF InWindow
<1>3. s \in Int /\ n \in Int /\ s + 200 <= n BY ClockDays
<1>4. D \in Nat /\ a <= D /\ D < b + 60
  <2> HIDE DEF a, b, s, n
  <2> QED BY <1>1, <1>2
<1>5. CodeDst(h) <=> s <= D /\ D < n
  <2>1. h >= 8 /\ D = (h - 8) \div 24 BY <1>1, <1>2
  <2> HIDE DEF D
  <2> QED BY <1>2, <1>4, <2>1, GuessedDst
<1>6. unix_to_pt_hours(h) = p BY <1>5 DEF unix_to_pt_hours, CodeDst
<1>7. t = IF h >= 24 * s + 10 /\ h < 24 * n + 9 THEN 7 ELSE 8 BY <1>2, OffsetIs
<1>8. o \in {7, 8} /\ t \in {7, 8}
  <2> HIDE DEF s, n, D, t
  <2> QED BY <1>7
<1>9. p \div 24 = (h - t) \div 24
  <2>1. o = IF s <= (h - 8) \div 24 /\ (h - 8) \div 24 < n THEN 7 ELSE 8 OBVIOUS
  <2> HIDE DEF s, n, D, t, o
  <2> QED BY <1>2, <1>3, <1>7, <2>1, SameDay
<1>10. TrueDay(y, h) = e BY <1>9 DEF TrueDay
<1>11. p \in Nat /\ p = h - o
  <2> HIDE DEF s, n, D, t, o, a, b
  <2> QED BY <1>1, <1>2, <1>8
<1> HIDE DEF s, n, D, o, t, p, a, b
<1>12. GoodKey(current_pt_day_key(h)) /\ KeyDay(current_pt_day_key(h)) = e
  BY <1>6, <1>11, CivilDate DEF current_pt_day_key
<1>13. e \in Nat BY <1>11
<1>14. hours_until_pacific_midnight(h) = 24 * (e + 1) + o - h
  <2>1. hours_until_pacific_midnight(h) = 24 - (p % 24) BY <1>6 DEF hours_until_pacific_midnight
  <2>2. p % 24 = p - 24 * (p \div 24) BY <1>11
  <2>3. o \in Int /\ p \div 24 \in Int BY <1>8, <1>11
  <2>4. 24 - (p - 24 * (p \div 24)) = 24 * (p \div 24 + 1) + o - h BY <1>2, <1>11, <2>3
  <2> QED BY <2>1, <2>2, <2>4
<1> DEFINE v == TrueOffset(y, 24 * (e + 1) + 8)
<1>15. v \in {7, 8}
  <2> DEFINE g == 24 * (e + 1) + 8
  <2>1. g \in Int BY <1>13
  <2> HIDE DEF g
  <2>2. TrueOffset(y, g) \in {7, 8} BY <2>1, OffsetIs
  <2> QED BY <2>2 DEF g
<1> HIDE DEF v
<1>16. UntilTrueMidnight(y, h) = 24 * (e + 1) + v - h BY <1>10 DEF UntilTrueMidnight, v
<1> HIDE DEF e
<1>17. Dist(24 * (e + 1) + o - h, 24 * (e + 1) + v - h) <= 1 BY <1>2, <1>8, <1>13, <1>15 DEF Dist
<1> QED BY <1>10, <1>12, <1>13, <1>14, <1>16, <1>17

\* The Pacific day never goes back.
LEMMA DayGrows ==
  ASSUME NEW y \in Nat, y >= 1970, NEW h \in Nat, NEW g \in Nat, g = h + 1
  PROVE  TrueDay(y, h) \in Int /\ TrueDay(y, g) \in Int /\ TrueDay(y, h) <= TrueDay(y, g)
<1> DEFINE s == SpringDay(y)
           n == AutumnDay(y)
           t == TrueOffset(y, h)
           u == TrueOffset(y, g)
           p == h - t
           q == g - u
<1>1. s \in Int /\ n \in Int /\ s + 200 <= n BY ClockDays
<1>2. t = IF h >= 24 * s + 10 /\ h < 24 * n + 9 THEN 7 ELSE 8 BY OffsetIs
<1>3. u = IF g >= 24 * s + 10 /\ g < 24 * n + 9 THEN 7 ELSE 8 BY OffsetIs
<1>4. TrueDay(y, h) = p \div 24 /\ TrueDay(y, g) = q \div 24 BY DEF TrueDay
<1> HIDE DEF s, n, t, u
<1>5. p \in Int /\ q \in Int /\ p <= q BY <1>1, <1>2, <1>3
<1> HIDE DEF p, q
<1>6. p \div 24 \in Int /\ q \div 24 \in Int /\ p \div 24 <= q \div 24 BY <1>5
<1> QED BY <1>4, <1>6

\* A window opens within its year, after the first day.
LEMMA CriticalInYear ==
  ASSUME NEW y \in Nat, y >= 1970, NEW c \in CriticalDays(y)
  PROVE  c \in Int /\ YearDay(y) + 1 <= c /\ c < YearDay(y + 1)
<1> DEFINE a == YearDay(y)
           b == YearDay(y + 1)
<1>1. a \in Int /\ LeapDay(y) \in {0, 1} /\ b = a + 365 + LeapDay(y) BY NextYear
<1>2. Sunday(y, 3, 2) = SpringDay(y) /\ Sunday(y, 11, 1) = AutumnDay(y) BY ClockChanges
<1>3. SpringDay(y) \in Int /\ AutumnDay(y) \in Int /\ a + 66 <= SpringDay(y) /\ SpringDay(y) + 200 <= AutumnDay(y)
      /\ AutumnDay(y) + 50 <= b BY ClockDays
<1>4. MonthLength(y, 2) = 28 + LeapDay(y) BY DEF MonthLength, LeapDay
<1>5. DayNumber(y, 2, 28) = a + 58 /\ DayNumber(y, 2, MonthLength(y, 2)) = a + 58 + LeapDay(y)
      /\ DayNumber(y, 12, 31) = a + 364 + LeapDay(y)
  <2>1. 2 \in Months /\ 12 \in Months BY DEF Months
  <2>2. DaysBefore(y, 2) = MonthStart(y, 2) /\ DaysBefore(y, 12) = MonthStart(y, 12) BY <2>1, MonthStartIs
  <2>3. MonthStart(y, 2) = 31 /\ MonthStart(y, 12) = 334 + LeapDay(y) BY DEF MonthStart, MonthStarts
  <2> HIDE DEF b
  <2> QED BY <1>1, <1>4, <2>2, <2>3 DEF DayNumber, a
<1>6. c \in {SpringDay(y), AutumnDay(y), a + 58, a + 58 + LeapDay(y), a + 364 + LeapDay(y)}
  BY <1>2, <1>5 DEF CriticalDays
<1> HIDE DEF a, b
<1>7. c \in Int /\ a + 1 <= c /\ c < b BY <1>1, <1>3, <1>6
<1> QED BY <1>7 DEF a, b

\* civil_from_days as the code has it: for every hour since 1970 the triple is a
\* date of the calendar, and it names the day of the hour.
THEOREM CivilFromDays ==
  ASSUME NEW h \in Nat
  PROVE  unix_to_ymd_utc(h) \in KeyShape /\ Names(unix_to_ymd_utc(h), h \div 24)
BY CivilDate DEF GoodKey, KeyDay, Names

\* A key that someone holds is the date of today or of an earlier day.
EarlierKey(k) == GoodKey(k) /\ KeyDay(k) \in Int /\ KeyDay(k) <= TrueDay(yearOf, utc)

\* The clock is in the window opened at one of the critical days of the chosen year.
WindowOpen == yearOf \in DayYears /\ (\E c \in CriticalDays(yearOf) : openedAt = 24 * c) /\ utc \in openedAt..(openedAt + DayHours)

\* The inductive invariant of the day counter: every key someone holds is a real date not after today.
DayInv ==
  /\ WindowOpen
  /\ todayCalls \in Nat /\ dayAdds \in Nat
  /\ recStep \in [Actors -> {"idle", "keyed", "rolled", "over"}]
  /\ recKey \in [Actors -> KeyShape]
  /\ EarlierKey(todayKey) /\ \A a \in Actors : EarlierKey(recKey[a])
  /\ Names(todayKey, TrueDay(yearOf, utc)) => todayCalls <= dayAdds

\* What the window says about the clock.
LEMMA WindowHours ==
  ASSUME WindowOpen
  PROVE  /\ yearOf \in Nat /\ yearOf >= 1970 /\ openedAt \in Int /\ utc \in Nat
         /\ InWindow(yearOf, utc)
<1>1. PICK c \in CriticalDays(yearOf) : openedAt = 24 * c BY DEF WindowOpen
<1>2. yearOf \in Nat /\ yearOf >= 1970 /\ DayHours \in 0..1200 BY DayAssumption DEF WindowOpen
<1> DEFINE a == YearDay(yearOf)
           b == YearDay(yearOf + 1)
<1>3. c \in Int /\ a + 1 <= c /\ c < b BY <1>2, CriticalInYear
<1>4. a \in Int /\ a >= 365 * (yearOf - 1970) /\ LeapDay(yearOf) \in {0, 1} /\ b = a + 365 + LeapDay(yearOf)
  BY <1>2, NextYear
<1>5. utc \in openedAt..(openedAt + DayHours) BY DEF WindowOpen
<1> HIDE DEF a, b
<1>6. a \in Nat /\ b \in Nat BY <1>2, <1>4
<1>7. openedAt \in Int /\ utc \in Int /\ utc >= openedAt /\ utc <= openedAt + 1200 BY <1>1, <1>2, <1>3, <1>5
<1>8. utc \in Nat /\ 24 * a + 24 <= utc /\ utc < 24 * b + 1440 BY <1>1, <1>3, <1>6, <1>7
<1> QED BY <1>2, <1>7, <1>8 DEF InWindow, a, b

\* The key that is computed now is the date of today.
LEMMA KeyOfNow ==
  ASSUME WindowOpen
  PROVE  EarlierKey(current_pt_day_key(utc)) /\ current_pt_day_key(utc) \in KeyShape
<1>1. GoodKey(current_pt_day_key(utc)) /\ KeyDay(current_pt_day_key(utc)) = TrueDay(yearOf, utc) /\ TrueDay(yearOf, utc) \in Nat
  BY WindowHours, PacificDay
<1> QED BY <1>1 DEF EarlierKey, GoodKey

\* DayInv holds initially.
LEMMA DayInvInit == DayInit => DayInv
<1> SUFFICES ASSUME DayInit PROVE DayInv OBVIOUS
<1>1. PICK c \in CriticalDays(yearOf) : openedAt = 24 * c BY DEF DayInit
<1>2. yearOf \in DayYears /\ utc = openedAt BY DEF DayInit
<1>3. WindowOpen
  <2>1. yearOf \in Nat /\ yearOf >= 1970 /\ DayHours \in 0..1200 BY <1>2, DayAssumption
  <2>2. c \in Int BY <2>1, CriticalInYear
  <2>3. utc \in openedAt..(openedAt + DayHours) BY <1>1, <1>2, <2>1, <2>2
  <2> QED BY <1>1, <1>2, <2>3 DEF WindowOpen
<1>4. todayKey = current_pt_day_key(utc) BY DEF DayInit
<1>5. EarlierKey(todayKey) /\ todayKey \in KeyShape BY <1>3, <1>4, KeyOfNow
<1>6. recKey = [a \in Actors |-> todayKey] /\ recStep = [a \in Actors |-> "idle"] /\ todayCalls = 0 /\ dayAdds = 0
  BY DEF DayInit
<1>7. recKey \in [Actors -> KeyShape] /\ \A a \in Actors : EarlierKey(recKey[a]) BY <1>5, <1>6
<1> QED BY <1>3, <1>5, <1>6, <1>7 DEF DayInv

\* DayInv is preserved by the clock, by the two steps of a recorder and by the display.
LEMMA DayInvStep == DayInv /\ [DayNext]_dayvars => DayInv'
<1> SUFFICES ASSUME DayInv, [DayNext]_dayvars PROVE DayInv' OBVIOUS
<1> USE DEF Snapshot
<1>1. WindowOpen /\ todayCalls \in Nat /\ dayAdds \in Nat /\ EarlierKey(todayKey)
      /\ recStep \in [Actors -> {"idle", "keyed", "rolled", "over"}] /\ recKey \in [Actors -> KeyShape]
  BY DEF DayInv
<1>2. \A a \in Actors : EarlierKey(recKey[a]) BY DEF DayInv
<1>3. Names(todayKey, TrueDay(yearOf, utc)) => todayCalls <= dayAdds BY DEF DayInv
<1>4. CASE HourPasses
  <2>1. utc' = utc + 1 /\ utc < openedAt + DayHours /\ yearOf' = yearOf /\ openedAt' = openedAt /\ todayKey' = todayKey
        /\ todayCalls' = todayCalls /\ recStep' = recStep /\ recKey' = recKey
        /\ dayAdds' = IF TrueDay(yearOf, utc + 1) = TrueDay(yearOf, utc) THEN dayAdds ELSE 0
    BY <1>4 DEF HourPasses
  <2>2. yearOf \in Nat /\ yearOf >= 1970 /\ openedAt \in Int /\ utc \in Nat BY <1>1, WindowHours
  <2> DEFINE g == utc + 1
             old == TrueDay(yearOf, utc)
             new == TrueDay(yearOf, g)
  <2>3. g \in Nat /\ g = utc + 1 BY <2>2
  <2>4. utc' = g /\ dayAdds' = IF new = old THEN dayAdds ELSE 0 BY <2>1
  <2> HIDE DEF g
  <2>5. old \in Int /\ new \in Int /\ old <= new BY <2>2, <2>3, DayGrows
  <2>6. TrueDay(yearOf, utc)' = new BY <2>1, <2>4
  <2>7. WindowOpen'
    <3>1. DayHours \in Int BY DayAssumption
    <3>2. g \in openedAt..(openedAt + DayHours) BY <1>1, <2>1, <2>2, <2>3, <3>1 DEF WindowOpen
    <3> QED BY <1>1, <2>1, <2>4, <3>2 DEF WindowOpen
  <2>8. ASSUME NEW k, EarlierKey(k) PROVE GoodKey(k) /\ KeyDay(k) \in Int /\ KeyDay(k) <= new
    <3>1. GoodKey(k) /\ KeyDay(k) \in Int /\ KeyDay(k) <= old BY <2>8 DEF EarlierKey
    <3> HIDE DEF new, old
    <3> QED BY <2>5, <3>1
  <2>9. EarlierKey(todayKey)' BY <1>1, <2>1, <2>6, <2>8 DEF EarlierKey, GoodKey, KeyDay
  <2>10. \A a \in Actors : EarlierKey(recKey[a])' BY <1>2, <2>1, <2>6, <2>8 DEF EarlierKey, GoodKey, KeyDay
  <2>11. Names(todayKey, new) => todayCalls <= dayAdds'
    <3>1. CASE new = old BY <1>3, <2>4, <3>1
    <3>2. CASE new # old
      <4>1. KeyDay(todayKey) \in Int /\ KeyDay(todayKey) <= old BY <1>1 DEF EarlierKey
      <4> HIDE DEF new, old
      <4>2. KeyDay(todayKey) # new BY <2>5, <3>2, <4>1
      <4> QED BY <4>2 DEF Names, KeyDay
    <3> QED BY <3>1, <3>2
  <2>12. (Names(todayKey, TrueDay(yearOf, utc)) => todayCalls <= dayAdds)' BY <2>1, <2>6, <2>11 DEF Names
  <2>13. (todayCalls \in Nat)' /\ (dayAdds \in Nat)' BY <1>1, <2>1
  <2>14. (recStep \in [Actors -> {"idle", "keyed", "rolled", "over"}])' /\ (recKey \in [Actors -> KeyShape])' BY <1>1, <2>1
  <2>15. (\A a \in Actors : EarlierKey(recKey[a]))' BY <2>10
  <2> QED BY <2>7, <2>9, <2>12, <2>13, <2>14, <2>15 DEF DayInv
<1>5. ASSUME NEW a \in Actors, ReadKey(a) PROVE DayInv'
  <2>1. yearOf' = yearOf /\ openedAt' = openedAt /\ utc' = utc /\ todayKey' = todayKey /\ todayCalls' = todayCalls /\ dayAdds' = dayAdds
        /\ recStep' = [recStep EXCEPT ![a] = "keyed"] /\ recKey' = [recKey EXCEPT ![a] = current_pt_day_key(utc)]
    BY <1>5 DEF ReadKey
  <2> DEFINE key == current_pt_day_key(utc)
  <2>2. EarlierKey(key) /\ key \in KeyShape BY <1>1, KeyOfNow
  <2> HIDE DEF key
  <2>3. recKey' = [recKey EXCEPT ![a] = key] BY <2>1 DEF key
  <2>4. (recKey \in [Actors -> KeyShape])' /\ (recStep \in [Actors -> {"idle", "keyed", "rolled", "over"}])' BY <1>1, <2>1, <2>2, <2>3
  <2>5. \A b \in Actors : EarlierKey(recKey'[b]) BY <1>1, <1>2, <2>2, <2>3
  <2>6. (\A b \in Actors : EarlierKey(recKey[b]))' BY <2>1, <2>5 DEF EarlierKey, GoodKey, KeyDay
  <2>7. EarlierKey(todayKey)' /\ WindowOpen' BY <1>1, <2>1 DEF EarlierKey, GoodKey, KeyDay, WindowOpen
  <2>8. (Names(todayKey, TrueDay(yearOf, utc)) => todayCalls <= dayAdds)' BY <1>3, <2>1 DEF Names
  <2>9. (todayCalls \in Nat)' /\ (dayAdds \in Nat)' BY <1>1, <2>1
  <2> QED BY <2>4, <2>6, <2>7, <2>8, <2>9 DEF DayInv
<1>6. ASSUME NEW a \in Actors, RollOver(a) PROVE DayInv'
  <2>1. yearOf' = yearOf /\ openedAt' = openedAt /\ utc' = utc /\ recKey' = recKey /\ dayAdds' = dayAdds
        /\ todayKey' = recKey[a] /\ todayCalls' = IF recKey[a] # todayKey THEN 0 ELSE todayCalls
    BY <1>6 DEF RollOver
  <2>2. recStep' = [recStep EXCEPT ![a] = IF a = "snapshot" THEN "idle" ELSE "rolled"] BY <1>6 DEF RollOver
  <2>3. (recStep \in [Actors -> {"idle", "keyed", "rolled", "over"}])' BY <1>1, <2>2
  <2>4. EarlierKey(todayKey)' /\ WindowOpen' BY <1>1, <1>2, <2>1 DEF EarlierKey, GoodKey, KeyDay, WindowOpen
  <2>5. (\A b \in Actors : EarlierKey(recKey[b]))' BY <1>2, <2>1 DEF EarlierKey, GoodKey, KeyDay
  <2>6. (todayCalls \in Nat)' /\ (dayAdds \in Nat)' /\ (recKey \in [Actors -> KeyShape])' BY <1>1, <2>1
  <2>7. Names(todayKey', TrueDay(yearOf, utc)) => todayCalls' <= dayAdds
    <3>1. CASE recKey[a] = todayKey BY <1>3, <2>1, <3>1
    <3>2. CASE recKey[a] # todayKey BY <1>1, <2>1, <3>2
    <3> QED BY <3>1, <3>2
  <2>8. (Names(todayKey, TrueDay(yearOf, utc)) => todayCalls <= dayAdds)' BY <2>1, <2>7 DEF Names
  <2> QED BY <2>3, <2>4, <2>5, <2>6, <2>8 DEF DayInv
<1>7. ASSUME NEW a \in Actors, CountCall(a) PROVE DayInv'
  <2>1. yearOf' = yearOf /\ openedAt' = openedAt /\ utc' = utc /\ recKey' = recKey /\ todayKey' = todayKey
        /\ dayAdds' = dayAdds + 1 /\ todayCalls' = todayCalls + 1 /\ recStep' = [recStep EXCEPT ![a] = "over"]
    BY <1>7 DEF CountCall
  <2>2. (recStep \in [Actors -> {"idle", "keyed", "rolled", "over"}])' BY <1>1, <2>1
  <2>3. EarlierKey(todayKey)' /\ WindowOpen' BY <1>1, <2>1 DEF EarlierKey, GoodKey, KeyDay, WindowOpen
  <2>4. (\A b \in Actors : EarlierKey(recKey[b]))' BY <1>2, <2>1 DEF EarlierKey, GoodKey, KeyDay
  <2>5. (todayCalls \in Nat)' /\ (dayAdds \in Nat)' /\ (recKey \in [Actors -> KeyShape])' BY <1>1, <2>1
  <2>6. Names(todayKey, TrueDay(yearOf, utc)) => todayCalls + 1 <= dayAdds + 1 BY <1>1, <1>3
  <2>7. (Names(todayKey, TrueDay(yearOf, utc)) => todayCalls <= dayAdds)' BY <2>1, <2>6 DEF Names
  <2> QED BY <2>2, <2>3, <2>4, <2>5, <2>7 DEF DayInv
<1>8. CASE UNCHANGED dayvars
  BY <1>1, <1>2, <1>3, <1>8 DEF dayvars, DayInv, WindowOpen, EarlierKey, GoodKey, KeyDay, Names
<1> QED BY <1>4, <1>5, <1>6, <1>7, <1>8 DEF DayNext

\* DayInv is an invariant of DaySpec.
LEMMA DayInvHolds == DaySpec => []DayInv
BY DayInvInit, DayInvStep, PTL DEF DaySpec

\* The counters of the day follow the Pacific day: the key is its date at every
\* hour, the countdown is off by an hour at most, and no call of yesterday is
\* counted under the key of today, whatever the callers held when the day changed.
THEOREM TodayFollowsPacific == DaySpec => []TodayIsQuotaDay
<1>1. DayInv => TodayIsQuotaDay
  <2> SUFFICES ASSUME DayInv PROVE TodayIsQuotaDay OBVIOUS
  <2>1. WindowOpen /\ (Names(todayKey, TrueDay(yearOf, utc)) => todayCalls <= dayAdds) BY DEF DayInv
  <2>2. GoodKey(current_pt_day_key(utc)) /\ KeyDay(current_pt_day_key(utc)) = TrueDay(yearOf, utc)
        /\ Dist(hours_until_pacific_midnight(utc), UntilTrueMidnight(yearOf, utc)) <= 1
    BY <2>1, WindowHours, PacificDay
  <2>3. Names(current_pt_day_key(utc), TrueDay(yearOf, utc)) BY <2>2 DEF GoodKey, KeyDay, Names
  <2> QED BY <2>1, <2>2, <2>3 DEF TodayIsQuotaDay
<1> QED BY <1>1, DayInvHolds, PTL

\* The types of the day's state.
THEOREM DayTypes == DaySpec => []DayTypeOK
<1>1. DayInv => DayTypeOK BY DEF DayInv, DayTypeOK, WindowOpen, EarlierKey, GoodKey
<1> QED BY <1>1, DayInvHolds, PTL
=============================================================================
