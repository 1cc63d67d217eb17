----------------------------- MODULE WAFConfig -----------------------------
(***************************************************************************)
(* The strategies' section of the settings (waf_config.py), the endpoints   *)
(* that change it (main.py) and the list of strategies the proxy runs       *)
(* (WAFProxy._setup_strategies and reload_strategies, proxy.py).            *)
(*                                                                          *)
(* The configuration is dict(DEFAULT_CONFIG), a SHALLOW copy: the section   *)
(* is one object, which DEFAULT_CONFIG and every copy of it share, and all  *)
(* changes go to that object. So one variable stands for both.              *)
(***************************************************************************)
EXTENDS Lists, SequencesExt

CONSTANTS
    Order,              \* the names in strategy_map, in its order
    DefaultStrategies,  \* those DEFAULT_CONFIG has, all enabled
    UsedSwitches,       \* the switches of single checks that are used
    MaxAdminOps         \* bound: changes of the settings

ASSUME ConfigAssumption ==
    /\ IsInjective(Order)
    /\ DefaultStrategies \subseteq ToSet(Order)
    /\ MaxAdminOps \in Nat

VARIABLES
    enabled,        \* "strategies" section: name -> "enabled"; names may be added
    off,            \* checks within a strategy that are switched off
    running,        \* WAFProxy.strategies, the names
    last_op,        \* history: the last operation on each strategy
    adminOps        \* changes so far

configVars == <<enabled, off, running, last_op, adminOps>>

Defaults == [s \in DefaultStrategies |-> TRUE]

\* is_strategy_enabled
IsEnabled(section, s) == s \in DOMAIN section /\ section[s]

\* _setup_strategies, on an empty list
SetUp(section) == Kept(Order, {s \in DOMAIN section : section[s]})

ConfigInit ==
    /\ enabled = Defaults
    /\ off = {}
    /\ running = SetUp(Defaults)
    /\ last_op = [s \in ToSet(Order) |-> "none"]
    /\ adminOps = 0

Administer ==
    /\ adminOps < MaxAdminOps
    /\ adminOps' = adminOps + 1

\* The section with one setting changed or added.
With(s, on) == [t \in DOMAIN enabled \cup {s} |-> IF t = s THEN on ELSE enabled[t]]

\* POST /waf/config: a deep update, new keys included; nothing is reloaded.
UpdateConfig(s, on) ==
    /\ Administer
    /\ enabled' = With(s, on)
    /\ last_op' = [last_op EXCEPT ![s] = "update"]
    /\ UNCHANGED <<off, running>>

\* The same for a check within a strategy: a category of signatures, or a rule
\* for headers. The strategies look these up with every request.
UpdateSwitch(check, on) ==
    /\ Administer
    /\ off' = IF on THEN off \ {check} ELSE off \cup {check}
    /\ UNCHANGED <<enabled, running, last_op>>

\* An operation on these strategies that reloads all.
Reloaded(names, op) ==
    [s \in ToSet(Order) |-> IF s \in names THEN op
                            ELSE IF last_op[s] = "update" THEN "reload" ELSE last_op[s]]

\* Mutant: the strategies are reloaded before the change.
ToggleStrategy_ReloadsFirst(s, on) ==
    /\ Administer
    /\ enabled' = IF s \in DOMAIN enabled THEN With(s, on) ELSE enabled
    /\ running' = SetUp(enabled)
    /\ last_op' = Reloaded(IF s \in DOMAIN enabled THEN {s} ELSE {}, "toggle")
    /\ UNCHANGED off

\* POST /waf/config/strategy/{name}/toggle: only known names, then a reload.
ToggleStrategy(s, on) ==
    /\ Administer
    /\ enabled' = IF s \in DOMAIN enabled THEN With(s, on) ELSE enabled
    /\ running' = SetUp(enabled')
    /\ last_op' = Reloaded(IF s \in DOMAIN enabled THEN {s} ELSE {}, "toggle")
    /\ UNCHANGED off

\* POST /waf/config/reset: reload first, then a new shallow copy of
\* DEFAULT_CONFIG, whose section is the object it was before.
ResetConfig ==
    /\ Administer
    /\ running' = SetUp(enabled)
    /\ last_op' = Reloaded(ToSet(Order), "reset")
    /\ UNCHANGED <<enabled, off>>

ConfigTypeOK ==
    /\ enabled \in UNION {[S -> BOOLEAN] : S \in SUBSET ToSet(Order)}
    /\ off \subseteq UsedSwitches
    /\ running \in Seq(ToSet(Order))
    /\ last_op \in [ToSet(Order) -> {"none", "update", "reload", "toggle", "reset"}]
    /\ adminOps \in 0..MaxAdminOps

=============================================================================
