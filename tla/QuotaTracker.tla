---------------------------- MODULE QuotaTracker ----------------------------
(***************************************************************************)
(* The per-account quota buckets (src/src/quota_tracker.rs), the relay     *)
(* calls that check and charge them (do_relay_once_with in                 *)
(* domain_fronter.rs) and the file they are saved in.  save() holds the    *)
(* state lock from serialising to the end of fs::write, which truncates    *)
(* the file and may fail; a crash or a failure in between can leave a file *)
(* that does not parse.  Byte counts, the failed count and the relay total *)
(* are left out.                                                           *)
(***************************************************************************)
EXTENDS Integers, FiniteSets, FiniteSetsExt

CONSTANTS
  Accounts,      \* configured script ids
  Dispatchers,   \* concurrent relay attempts
  DailyLimit,    \* quota_daily_limit
  SafetyBuffer,  \* quota_safety_buffer
  MaxCrashes     \* bound: crashes

ASSUME QuotaAssumption ==
  /\ Accounts # {} /\ IsFiniteSet(Accounts) /\ IsFiniteSet(Dispatchers)
  /\ DailyLimit \in Nat /\ SafetyBuffer \in Nat /\ SafetyBuffer <= DailyLimit
  /\ MaxCrashes \in Nat

VARIABLES
  bucket,   \* AccountBucket per account
  file,     \* quota_state.json as load would read it, once no save is under way
  intact,   \* the last save wrote the whole file
  dirty,    \* dirty_count > 0
  saver,    \* who is inside save(): nobody, or the caller to resume
  flusher,  \* save_if_needed: idle, or about to clear dirty_count
  qpc, qacct, \* per relay attempt: step and account
  marked,   \* accounts whose mark_exhausted returned in this window
  crashes

quotavars == <<bucket, file, intact, dirty, saver, flusher, qpc, qacct, marked, crashes>>

NoAccount == "none"
Fresh0 == [used |-> 0, stop |-> FALSE, window |-> "none", errors |-> 0]

\* A file that does not parse loads as empty buckets.
Lost == [a \in Accounts |-> Fresh0]
Bucket == [used : 0..(DailyLimit + Cardinality(Dispatchers)), stop : BOOLEAN,
           window : {"none", "open", "over"}, errors : 0..1]

QuotaTypeOK ==
  /\ bucket \in [Accounts -> Bucket]
  /\ file \in [Accounts -> Bucket]
  /\ intact \in BOOLEAN /\ dirty \in BOOLEAN
  /\ saver \in {"none", "load", "attempt", "mark", "flush"} /\ flusher \in {"idle", "clear"}
  /\ qpc \in [Dispatchers -> {"idle", "picked", "passed", "flight", "saving"}]
  /\ qacct \in [Dispatchers -> Accounts \cup {NoAccount}]
  /\ marked \subseteq Accounts /\ crashes \in 0..MaxCrashes

QuotaInit ==
  /\ bucket = [a \in Accounts |-> Fresh0] /\ file = bucket /\ intact = TRUE
  /\ dirty = FALSE /\ saver = "none" /\ flusher = "idle"
  /\ qpc = [d \in Dispatchers |-> "idle"] /\ qacct = [d \in Dispatchers |-> NoAccount]
  /\ marked = {} /\ crashes = 0

\* The mutex around the state.
Unlocked == saver = "none"

AtStep(d, p) == qpc' = [qpc EXCEPT ![d] = p]

SaturatingSub(x, y) == IF x > y THEN x - y ELSE 0
UsedTotal == MapThenSumSet(LAMBDA a : bucket[a].used, Accounts)

\* is_globally_hard_stopped.
GlobalStop ==
  \/ \A a \in Accounts : bucket[a].stop
  \/ /\ \E a \in Accounts : bucket[a].errors > 0
     /\ SaturatingSub(DailyLimit * Cardinality(Accounts), UsedTotal) < SafetyBuffer * Cardinality(Accounts)

\* A window that is over starts again from zero.
Rolled(b) == IF b.window = "over" THEN [Fresh0 EXCEPT !.window = "open"] ELSE b

ChargedStale(b) ==
  LET w == IF b.window = "none" THEN [b EXCEPT !.window = "open"] ELSE Rolled(b) IN
  [w EXCEPT !.used = @ + 1,
            !.stop = IF SaturatingSub(DailyLimit, w.used) < SafetyBuffer THEN TRUE ELSE @]

\* A charge, and the stop once what remains is less than the reserve.
Charged(b) ==
  LET w == IF b.window = "none" THEN [b EXCEPT !.window = "open"] ELSE Rolled(b) IN
  [w EXCEPT !.used = @ + 1,
            !.stop = IF SaturatingSub(DailyLimit, w.used + 1) < SafetyBuffer THEN TRUE ELSE @]

-----------------------------------------------------------------------------
(* do_relay_with_retry, do_relay_once_with *)

\* The global stop refuses, otherwise an account is picked (see ScriptPool).
PickAccount(d) ==
  /\ qpc[d] = "idle" /\ Unlocked /\ ~GlobalStop
  /\ \E a \in Accounts : qacct' = [qacct EXCEPT ![d] = a]
  /\ AtStep(d, "picked")
  /\ UNCHANGED <<bucket, file, intact, dirty, saver, flusher, marked, crashes>>

Done(d) == AtStep(d, "idle") /\ qacct' = [qacct EXCEPT ![d] = NoAccount]

\* is_hard_stopped is read once before the payload is built.
PassCheck(d) ==
  /\ qpc[d] = "picked" /\ Unlocked
  /\ IF bucket[qacct[d]].stop THEN Done(d) ELSE AtStep(d, "passed") /\ UNCHANGED qacct
  /\ UNCHANGED <<bucket, file, intact, dirty, saver, flusher, marked, crashes>>

Roll(S) == marked' = {a \in marked : ~(a \in S /\ bucket[a].window = "over")}

\* record_attempt; every fiftieth mutation since the last flush also saves.
RecordAttempt(d) ==
  /\ qpc[d] = "passed" /\ Unlocked
  /\ bucket' = [bucket EXCEPT ![qacct[d]] = Charged(@)]
  /\ Roll({qacct[d]})
  /\ dirty' = TRUE /\ AtStep(d, "flight")
  /\ saver' \in {"none", "attempt"}
  /\ UNCHANGED <<file, intact, flusher, qacct, crashes>>

\* record_success, or record_failure without a quota text.
AttemptEnds(d) ==
  /\ qpc[d] = "flight" /\ Unlocked
  /\ dirty' = TRUE /\ Done(d)
  /\ UNCHANGED <<bucket, file, intact, saver, flusher, marked, crashes>>

\* record_failure with a quota text, then mark_exhausted.
QuotaFailure(d) ==
  /\ qpc[d] = "flight" /\ Unlocked
  /\ bucket' = [bucket EXCEPT ![qacct[d]].errors = 1]
  /\ dirty' = TRUE /\ AtStep(d, "saving")
  /\ UNCHANGED <<file, intact, saver, flusher, qacct, marked, crashes>>

MarkUnsaved(d) ==
  /\ qpc[d] = "saving" /\ Unlocked
  /\ bucket' = [bucket EXCEPT ![qacct[d]].stop = TRUE]
  /\ marked' = marked \cup {qacct[d]}
  /\ Done(d)
  /\ UNCHANGED <<file, intact, dirty, saver, flusher, crashes>>

\* mark_exhausted sets the flags and force-saves; it returns from SaveEnds.
MarkExhausted(d) ==
  /\ qpc[d] = "saving" /\ Unlocked
  /\ bucket' = [bucket EXCEPT ![qacct[d]].stop = TRUE]
  /\ saver' = "mark"
  /\ UNCHANGED <<file, intact, dirty, flusher, qpc, qacct, marked, crashes>>

-----------------------------------------------------------------------------
(* save, save_if_needed, roll_expired_windows, crash and load *)

\* fs::write has returned and the lock is released.  A failed one is only
\* logged: the file is as before, or truncated and partly written.
SaveEnds ==
  /\ saver # "none" /\ saver' = "none"
  /\ \/ file' = bucket /\ intact' = TRUE
     \/ file' \in {file, Lost} /\ intact' = FALSE
  /\ flusher' = IF saver = "flush" THEN "clear" ELSE flusher
  /\ \/ saver # "mark" /\ UNCHANGED <<qpc, qacct, marked>>
     \/ saver = "mark" /\ \E d \in Dispatchers :
          /\ qpc[d] = "saving" /\ bucket[qacct[d]].stop
          /\ marked' = marked \cup {qacct[d]} /\ Done(d)
  /\ UNCHANGED <<bucket, dirty, crashes>>

\* The one-second save task and the stats task.
SaveIfNeeded ==
  /\ flusher = "idle" /\ Unlocked /\ dirty
  /\ saver' = "flush"
  /\ UNCHANGED <<bucket, file, intact, dirty, flusher, qpc, qacct, marked, crashes>>

\* dirty_count is cleared after the save, not with it.
ClearDirty ==
  /\ flusher = "clear" /\ flusher' = "idle" /\ dirty' = FALSE
  /\ UNCHANGED <<bucket, file, intact, saver, qpc, qacct, marked, crashes>>

RollExpiredWindows ==
  /\ Unlocked /\ \E a \in Accounts : bucket[a].window = "over"
  /\ bucket' = [a \in Accounts |-> Rolled(bucket[a])]
  /\ Roll(Accounts) /\ dirty' = TRUE
  /\ UNCHANGED <<file, intact, saver, flusher, qpc, qacct, crashes>>

\* 24 hours after the window was opened, in memory and in the file alike.
WindowOver(a) ==
  /\ bucket[a].window = "open" /\ Unlocked
  /\ bucket' = [bucket EXCEPT ![a].window = "over"]
  /\ file' = IF file[a].window = "open" THEN [file EXCEPT ![a].window = "over"] ELSE file
  /\ UNCHANGED <<intact, dirty, saver, flusher, qpc, qacct, marked, crashes>>

\* check_all_safety_buffers on what load read.
Prechecked(b) == [b EXCEPT !.stop = IF SaturatingSub(DailyLimit, b.used) < SafetyBuffer THEN TRUE ELSE @]

\* What the file holds after a crash: a write under way may not have begun, be
\* cut short or be done.
AfterCrash == IF Unlocked THEN {file} ELSE {file, Lost, bucket}

\* The process dies and starts again: load reads the file, falls back to
\* empty buckets when it does not parse, and saves.
CrashAndLoad ==
  /\ crashes < MaxCrashes /\ crashes' = crashes + 1
  /\ file' \in AfterCrash
  /\ bucket' = [a \in Accounts |-> Prechecked(file'[a])]
  /\ marked' = {a \in marked : bucket'[a].stop}
  /\ intact' = (intact /\ Unlocked)
  /\ saver' = "load"
  /\ dirty' = FALSE /\ flusher' = "idle"
  /\ qpc' = [d \in Dispatchers |-> "idle"] /\ qacct' = [d \in Dispatchers |-> NoAccount]

QuotaNext ==
  \/ \E d \in Dispatchers :
       \/ PickAccount(d) \/ PassCheck(d) \/ RecordAttempt(d)
       \/ AttemptEnds(d) \/ QuotaFailure(d) \/ MarkExhausted(d)
  \/ SaveEnds \/ SaveIfNeeded \/ ClearDirty \/ RollExpiredWindows \/ CrashAndLoad
  \/ \E a \in Accounts : WindowOver(a)

QuotaSpec == QuotaInit /\ [][QuotaNext]_quotavars

-----------------------------------------------------------------------------
(* Properties *)

\* The recorded count of an account goes into the reserve by at most one charge
\* per concurrent attempt: is_hard_stopped is read before record_attempt charges,
\* so the attempts already past the check may each take one request too many and
\* no further ones can, through window rolls and late quota errors.  A restart
\* counts on from what the file says: requests whose count a crash loses are
\* outside this bound.
ReserveKept ==
  \A a \in Accounts : bucket[a].used <= DailyLimit - SafetyBuffer + Cardinality(Dispatchers)

\* A step that frees an account after mark_exhausted has returned for it.
FreedOnlyBy ==
  \A a \in marked : ~bucket'[a].stop =>
    \/ bucket[a].window = "over"
    \/ crashes' # crashes /\ ~(intact /\ Unlocked)

\* An account that mark_exhausted has stopped is free again only when its window
\* is over, or after a crash that found the file torn or not written: in the
\* middle of a save, or when the last save had failed.
StopOutlivesRestart == [][FreedOnlyBy]_quotavars

\* What the code says of mark_exhausted (quota_tracker.rs:313) and of hard_stopped
\* (line 48): the stop survives a crash and a restart.
StopSurvivesCrash ==
  [][crashes' # crashes => \A a \in marked : bucket'[a].stop]_quotavars
=============================================================================
