------------------------------- MODULE WebAccess -------------------------------
(***************************************************************************)
(* Which requests the web server lets change the unit: the lock level, the *)
(* fuse that makes the lock permanent, the signature check and its rate    *)
(* limit (web_config.c).  One httpd task serves one request at a time; the *)
(* clock, the console and power failures interleave with its steps.        *)
(*                                                                         *)
(* The rate limit keeps the times of failed checks in a fixed table and    *)
(* compacts it in place.  Times are milliseconds in a uint32_t: the table  *)
(* holds here the differences now - stamp, which return to 0 after Period  *)
(* ticks.                                                                  *)
(***************************************************************************)
EXTENDS Integers

CONSTANTS
  Max,      \* SIG_RATE_MAX_FAILS
  Window,   \* SIG_RATE_WINDOW_MS, in ticks
  Period    \* the period of the clock, 2^32 ms, in ticks

ASSUME AccessAssumption ==
  /\ Max \in Nat \ {0} /\ Window \in Nat \ {0}
  /\ Period \in Nat /\ Period > Window

VARIABLES
  table,   \* s_sig_fail_times[i + 1], as an age
  count,   \* s_sig_fail_count
  i, valid, \* the loop of sig_rate_check
  pc,      \* the step of the request being served
  req,     \* the request
  level,   \* cfg.lock_level, in RAM and flash
  burned,  \* the fuse block holds EFUSE_LOCK_MAGIC
  \* History: read by properties only.
  last,    \* the ages of the last Max failed checks, newest first
  outlived \* an entry of the table has become as old as the clock's period

tableVars == <<table, count, i, valid>>
lockVars == <<level, burned>>
historyVars == <<last, outlived>>
vars == <<tableVars, pc, req, lockVars, historyVars>>

Levels == 0 .. 2
\* The two handlers that are rate limited, and the two commands of
\* /api/command that ask for a signature.
Limited == {"config", "reset"}
Commands == {"cmd_reset", "cmd_restart"}
Requests == [kind : Limited \union Commands, signed : BOOLEAN]
NoRequest == [kind |-> "config", signed |-> FALSE]

FW == INSTANCE FailWindow

TypeOK ==
  /\ table \in [1 .. Max -> 0 .. Period - 1]
  /\ count \in 0 .. Max /\ i \in 0 .. Max /\ valid \in 0 .. Max
  /\ pc \in {"idle", "check", "verify", "apply"}
  /\ req \in Requests
  /\ level \in Levels /\ burned \in BOOLEAN
  /\ last \in FW!Ages /\ outlived \in BOOLEAN

Init ==
  /\ table = [n \in 1 .. Max |-> 0] /\ count = 0 /\ i = 0 /\ valid = 0
  /\ pc = "idle" /\ req = NoRequest
  /\ level \in Levels /\ burned = FALSE
  /\ last = FW!Nothing /\ outlived = FALSE

-----------------------------------------------------------------------------
(* The request. *)

\* Mutant: the configured level is read before the fuse.
LevelsReadCfg == {level}
\* get_lock_level: the fuse decides first.  A configuration that cannot be
\* read within 100 ms leaves the variable on the stack unwritten.
LevelsRead == IF burned THEN {2} ELSE {level} \union Levels

Ask ==
  /\ pc = "idle"
  /\ req' \in Requests
  /\ \E lvl \in LevelsRead :
       pc' = CASE lvl = 0 -> "apply"
               [] lvl # 0 /\ req'.kind \in Limited -> "check"
               [] lvl # 0 /\ req'.kind \in Commands -> "verify"
  /\ UNCHANGED <<tableVars, lockVars, historyVars>>

-----------------------------------------------------------------------------
(* sig_rate_check: one turn of the loop, and what comes after it. *)

\* Mutant: an entry is counted but not moved.
KeepInPlace == valid' = valid + 1 /\ UNCHANGED table
Keep == valid' = valid + 1 /\ table' = [table EXCEPT ![valid + 1] = table[i + 1]]

\* Mutant: an entry that has just left the window is still counted.
FreshTooLong(age) == age <= Window
Fresh(age) == age < Window

Compact ==
  /\ pc = "check" /\ i < count
  /\ i' = i + 1
  /\ IF Fresh(table[i + 1]) THEN Keep ELSE UNCHANGED <<table, valid>>
  /\ UNCHANGED <<count, pc, req, lockVars, historyVars>>

\* Mutant: the count is not lowered to the entries that are left.
StaleCount == count
\* Mutant: the count is one past the entries that are left.
NewCountPastEnd == valid + 1
NewCount == valid

Verdict ==
  /\ pc = "check" /\ i = count
  /\ count' = NewCount /\ i' = 0 /\ valid' = 0
  /\ pc' = IF count' < Max THEN "verify" ELSE "idle"
  /\ UNCHANGED <<table, req, lockVars, historyVars>>

-----------------------------------------------------------------------------
(* verify_signed_body, and sig_rate_record_fail. *)

\* The fresh entry of last is history; the guard is that of the code.
RecordFail ==
  /\ IF count < Max THEN count' = count + 1 /\ table' = [table EXCEPT ![count + 1] = 0]
                    ELSE UNCHANGED <<count, table>>
  /\ last' = [j \in 1 .. Max |-> IF j = 1 THEN 0 ELSE last[j - 1]]

Accept ==
  /\ pc = "verify" /\ req.signed
  /\ pc' = "apply"
  /\ UNCHANGED <<tableVars, req, lockVars, historyVars>>

\* A command that fails the check is refused and leaves no trace.
Refuse ==
  /\ pc = "verify" /\ ~req.signed
  /\ pc' = "idle"
  /\ IF req.kind \in Limited THEN RecordFail ELSE UNCHANGED <<table, count, last>>
  /\ UNCHANGED <<i, valid, req, lockVars, outlived>>

-----------------------------------------------------------------------------
(* The request takes effect. *)

\* RAM is lost: the table and the request being served.
Lost ==
  /\ table' = [n \in 1 .. Max |-> 0] /\ count' = 0 /\ i' = 0 /\ valid' = 0
  /\ pc' = "idle" /\ req' = NoRequest
  /\ last' = FW!Nothing /\ outlived' = FALSE

\* The fuse is burned before the configuration is saved, and stays burned
\* whatever becomes of that; the write of the fuse may fail.
SetLevel(asked) ==
  /\ burned' \in IF asked = 2 THEN {burned, TRUE} ELSE {burned}
  /\ level' = asked

\* apply_json and esp_rid_set_config: the body names a level or it does not,
\* the configuration it edits may be unread (any level), and the change is
\* dropped if the lock is taken for 100 ms.
ApplyConfig ==
  /\ pc = "apply" /\ req.kind = "config"
  /\ pc' = "idle"
  /\ \/ \E asked \in Levels : SetLevel(asked)
     \/ level' = level /\ burned' \in BOOLEAN /\ (burned => burned')
     \/ level' \in Levels /\ burned' = burned
  /\ UNCHANGED <<tableVars, req, historyVars>>

\* A factory reset sets the level to 0, or keeps it when the lock is taken.
\* The fuse it cannot touch.
ApplyRestart ==
  /\ pc = "apply" /\ req.kind # "config"
  /\ level' \in IF req.kind = "cmd_restart" THEN {level} ELSE {0, level}
  /\ Lost
  /\ UNCHANGED burned

Apply == ApplyConfig \/ ApplyRestart

-----------------------------------------------------------------------------
(* The clock, the console and the power. *)

Wrapped(age) == IF age + 1 = Period THEN 0 ELSE age + 1

\* The loop reads the clock once, so time stands still in it.
Tick ==
  /\ pc # "check"
  /\ table' = [n \in 1 .. Max |-> Wrapped(table[n])]
  /\ FW!Tick
  /\ outlived' = (outlived \/ \E n \in 1 .. count : Wrapped(table[n]) = 0)
  /\ UNCHANGED <<count, i, valid, pc, req, lockVars>>

\* "set lock_level" sets any level and burns nothing.
ConsoleSet ==
  /\ level' \in Levels
  /\ UNCHANGED <<tableVars, pc, req, burned, historyVars>>

ConsoleReset == level' \in {0, level} /\ Lost /\ UNCHANGED burned

PowerLoss == Lost /\ UNCHANGED lockVars

Restarts == ApplyRestart \/ ConsoleReset \/ PowerLoss

Next ==
  \/ Ask \/ Compact \/ Verdict \/ Accept \/ Refuse \/ Apply
  \/ Tick \/ ConsoleSet \/ ConsoleReset \/ PowerLoss

Spec == Init /\ [][Next]_vars

-----------------------------------------------------------------------------
(* Properties. *)

\* At most Max checks fail within any window of time between two restarts:
\* the compaction in place forgets no failure of the window and the table has
\* room for each, whatever the clock's wrap-around does to the older entries
\* (web_config.c:48-64).
RateLimit == FW!Spec

\* A request is refused for the rate only when Max checks did fail within the
\* window, unless an entry outlived the clock's period and looks new again
\* (web_config.c:53).
RefusalJustified ==
  pc = "check" /\ i = count /\ valid = Max => last[Max] < Window \/ outlived

\* Once the fuse is burned no request to the web server takes effect without a valid
\* signature, whatever console, resets and restarts do to the configured level
\* (web_config.c:67-78).  The recovery server (rid_ota.c) never reads the fuse.
BurnedNeedsSignature == burned /\ pc = "apply" => req.signed

\* An entry that has outlived the window is dropped by the next check, so the
\* limit cannot close for good: but for endless restarts, a client that asks
\* again and again while no failure looks new is again and again let through
\* to the signature check or past it (web_config.c:55-58).
AskInClear == Ask /\ \A n \in 1 .. count : table[n] >= Window
LockoutEnds ==
  <>[][~Restarts]_vars /\ []<><<AskInClear>>_vars => []<>(pc \in {"verify", "apply"})

\* A request that has been received is served to its end.
Serve == Compact \/ Verdict \/ Accept \/ Refuse \/ Apply
FairSpec == Spec /\ WF_vars(Serve)
===============================================================================
