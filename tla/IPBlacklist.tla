----------------------------- MODULE IPBlacklist -----------------------------
(***************************************************************************)
(* The in-memory IPBlacklist (ai_engine/ip_blacklist.py), one client at a   *)
(* time. It is fed beside the table but only read by the history page       *)
(* GET /security/blacklist/{ip}; enforcement never asks it. Its threshold   *)
(* and duration are constructor arguments, not the configured ones.         *)
(***************************************************************************)
EXTENDS Integers

CONSTANTS
    MemThreshold,   \* auto_ban_threshold: 5
    MemDuration,    \* ban_duration_minutes: 60
    MemHistory      \* violations remembered per client: 20

ASSUME IPBlacklistAssumption ==
    /\ MemThreshold \in Nat \ {0}
    /\ MemDuration \in Nat
    /\ MemHistory \in Nat
    /\ MemThreshold <= MemHistory

\* entry is _blacklist[ip] ("none": no such key), since its timestamp;
\* violations is len(_ip_violations[ip]).
Memory == [whitelisted : BOOLEAN, violations : 0..MemHistory,
           entry : {"none", "temporary", "permanent"}, since : Nat]

EmptyMemory == [whitelisted |-> FALSE, violations |-> 0, entry |-> "none", since |-> 0]

\* Mutant: the history is never trimmed.
MemViolated_Untrimmed(m, t) ==
    LET kept == m.violations + 1
    IN  IF m.whitelisted THEN m
        ELSE IF kept < MemThreshold THEN [m EXCEPT !.violations = kept]
        ELSE [m EXCEPT !.violations = kept, !.entry = "temporary", !.since = t]

\* add_violation; at the threshold the entry is overwritten, whatever it was.
MemViolated(m, t) ==
    LET kept == IF m.violations < MemHistory THEN m.violations + 1 ELSE MemHistory
    IN  IF m.whitelisted THEN m
        ELSE IF kept < MemThreshold THEN [m EXCEPT !.violations = kept]
        ELSE [m EXCEPT !.violations = kept, !.entry = "temporary", !.since = t]

\* ban_ip: also leaves the whitelist.
MemBanned(m, permanent, t) ==
    [m EXCEPT !.whitelisted = FALSE,
              !.entry = IF permanent THEN "permanent" ELSE "temporary",
              !.since = t]

\* unban_ip: forgets the entry and the violations, not the whitelisting.
MemUnbanned(m) == [EmptyMemory EXCEPT !.whitelisted = m.whitelisted]

\* whitelist_ip: drops the entry, keeps the violations.
MemWhitelisted(m) == [m EXCEPT !.whitelisted = TRUE, !.entry = "none", !.since = 0]

\* is_blocked, the answer; a temporary entry counts up to and including the
\* instant the duration ends.
MemIsBlocked(m, t) ==
    /\ ~m.whitelisted
    /\ \/ m.entry = "permanent"
       \/ m.entry = "temporary" /\ t - m.since <= MemDuration

\* Mutant: expiry forgets the violations as well.
MemAfterLookup_Forgets(m, t) ==
    IF ~m.whitelisted /\ m.entry = "temporary" /\ t - m.since > MemDuration
    THEN EmptyMemory
    ELSE m

\* is_blocked, its effect: an expired entry is deleted, the violations stay.
MemAfterLookup(m, t) ==
    IF ~m.whitelisted /\ m.entry # "none" /\ ~MemIsBlocked(m, t)
    THEN [m EXCEPT !.entry = "none", !.since = 0]
    ELSE m

=============================================================================
