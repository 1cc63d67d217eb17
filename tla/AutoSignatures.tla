--------------------------- MODULE AutoSignatures ---------------------------
(***************************************************************************)
(* Generated signatures (auto_signatures.py, its endpoints in main.py, the  *)
(* review page of static/dashboard.html).                                   *)
(*                                                                          *)
(* The rules are a list; a page shows it as it was when it was loaded, and  *)
(* its buttons send the INDEX of a rule, which the server applies to the    *)
(* list as it is by then. Every change is written to a JSON file that is    *)
(* truncated first, and read again when the process starts.                 *)
(*                                                                          *)
(* A handler never suspends between reading the rules and saving them, so   *)
(* it is one step, unless the process dies in its middle: then the file is  *)
(* torn, the memory gone, and what the next process finds is all there is.  *)
(* The await on the logs in the analysis comes before: what is found in     *)
(* them is a choice.                                                        *)
(***************************************************************************)
EXTENDS Integers, Sequences, SequencesExt

CONSTANTS
    Patterns,       \* what can be found in logs
    Pages,          \* open review pages
    MaxFound,       \* bound: candidates of one analysis
    MaxChanges,     \* bound: changes of the list
    MaxMishaps      \* bound: failing saves and deaths of the process

ASSUME SignaturesAssumption ==
    /\ MaxFound \in Nat
    /\ MaxChanges \in Nat
    /\ MaxMishaps \in Nat

VARIABLES
    running,        \* the process runs
    rules,          \* AutoSignatureGenerator._rules
    file,           \* auto_signatures.json
    shown,          \* the list on each page
    changes,        \* changes so far
    mishaps,        \* mishaps so far
    kept,           \* history: the rules as the last change that ended left them
    reviewed,       \* history: patterns that were reviewed and not deleted since
    cut,            \* history: the last save raised, or the process died in it
    lost,           \* history: a process has started after that without those rules
    valid           \* history: pages since whose loading no rule went away

vars == <<running, rules, file, shown, changes, mishaps, kept, reviewed, cut, lost, valid>>

Statuses == {"pending_review", "approved", "rejected"}
Rule == [pattern : Patterns, status : Statuses]

\* A file that was truncated and not completely written does not parse.
Missing == <<"missing">>
Torn == <<"torn">>

\* _load_rules: whatever cannot be read counts as no rules at all.
Loaded(content) == IF content \in {Missing, Torn} THEN <<>> ELSE content[2]

Init ==
    /\ running = TRUE
    /\ rules = <<>>
    /\ file = Missing
    /\ shown = [page \in Pages |-> <<>>]
    /\ changes = 0
    /\ mishaps = 0
    /\ kept = <<>>
    /\ reviewed = {}
    /\ cut = FALSE
    /\ lost = FALSE
    /\ valid = Pages

-----------------------------------------------------------------------------
\* The list becomes new and is saved; or opening the file raises, or writing it
\* does; or the process dies after the truncation. A change that ends leaves these
\* patterns reviewed and does not outdate these pages.
ChangeTo(new, nowReviewed, pages) ==
    /\ running
    /\ changes < MaxChanges
    /\ changes' = changes + 1
    /\ UNCHANGED <<shown, lost>>
    /\ \/ /\ rules' = new
          /\ kept' = new
          /\ reviewed' = nowReviewed
          /\ valid' = pages
          /\ \/ /\ file' = <<"whole", new>>
                /\ cut' = FALSE
                /\ UNCHANGED mishaps
             \/ /\ mishaps < MaxMishaps
                /\ mishaps' = mishaps + 1
                /\ file' \in {file, Torn}
                /\ cut' = TRUE
          /\ UNCHANGED running
       \/ /\ mishaps < MaxMishaps
          /\ mishaps' = mishaps + 1
          /\ running' = FALSE
          /\ rules' = <<>>
          /\ file' = Torn
          /\ cut' = TRUE
          /\ UNCHANGED <<kept, reviewed, valid>>

\* _pattern_exists
Exists(list, p) == \E i \in DOMAIN list : list[i].pattern = p

\* Mutant: a status for which the page has no buttons.
Candidate_Stuck(p) == [pattern |-> p, status |-> "pending"]

Candidate(p) == [pattern |-> p, status |-> "pending_review"]

\* Mutant: what is found again is put up for review again.
WithCandidate_Again(list, p) ==
    IF Exists(list, p)
    THEN [i \in DOMAIN list |-> IF list[i].pattern = p THEN Candidate(p) ELSE list[i]]
    ELSE Append(list, Candidate(p))

\* Mutant: the newest rule comes first, as administrators would like to see it.
WithCandidate_First(list, p) == IF Exists(list, p) THEN list ELSE <<Candidate(p)>> \o list

\* What is found is put at the end for review, unless there is a rule for it.
WithCandidate(list, p) == IF Exists(list, p) THEN list ELSE Append(list, Candidate(p))

\* Mutant: only the rules that were there before are compared with.
Extended_OldOnly(list, found) ==
    FoldLeft(LAMBDA acc, p : IF Exists(list, p) THEN acc ELSE Append(acc, Candidate(p)), list, found)

\* analyze_and_generate: the candidates, in order.
Extended(list, found) ==
    LET grown[n \in 0..Len(found)] ==
            IF n = 0 THEN list ELSE WithCandidate(grown[n - 1], found[n])
    IN  grown[Len(found)]

\* POST /auto-signatures/analyze; without a new pattern nothing is saved.
Analyze(found) ==
    /\ Extended(rules, found) # rules
    /\ ChangeTo(Extended(rules, found), reviewed, valid)

\* GET /auto-signatures, after every click and when the tab is opened.
LoadPage(page) ==
    /\ running
    /\ shown' = [shown EXCEPT ![page] = rules]
    /\ valid' = valid \cup {page}
    /\ UNCHANGED <<running, rules, file, changes, mishaps, kept, reviewed, cut, lost>>

\* A page has this rule at this index, with these buttons.
Shows(page, i, statuses) == i \in DOMAIN shown[page] /\ shown[page][i].status \in statuses

\* POST /auto-signatures/{index}/approve and reject
Review(page, i, verdict) ==
    /\ Shows(page, i, {"pending_review"})
    /\ i \in DOMAIN rules
    /\ ChangeTo([rules EXCEPT ![i].status = verdict], reviewed \cup {rules[i].pattern}, valid)

\* Mutant: the file keeps the deleted rule.
Delete_Unsaved(page, i) ==
    /\ Shows(page, i, Statuses)
    /\ i \in DOMAIN rules
    /\ running
    /\ changes < MaxChanges
    /\ changes' = changes + 1
    /\ rules' = RemoveAt(rules, i)
    /\ kept' = rules'
    /\ reviewed' = reviewed \ {rules[i].pattern}
    /\ valid' = {}
    /\ UNCHANGED <<running, file, shown, mishaps, cut, lost>>

\* DELETE /auto-signatures/{index}
Delete(page, i) ==
    /\ Shows(page, i, Statuses)
    /\ i \in DOMAIN rules
    /\ ChangeTo(RemoveAt(rules, i), reviewed \ {rules[i].pattern}, {})

\* An index the list no longer has is answered "not_found".
ClickMisses(page, i) ==
    /\ running
    /\ Shows(page, i, Statuses)
    /\ i \notin DOMAIN rules
    /\ UNCHANGED vars

\* The process ends, by whatever cause, between two handlers or before one has
\* opened the file; the pages stay open.
Stop ==
    /\ running
    /\ mishaps < MaxMishaps
    /\ mishaps' = mishaps + 1
    /\ running' = FALSE
    /\ rules' = <<>>
    /\ UNCHANGED <<file, shown, changes, kept, reviewed, cut, lost, valid>>

\* The next one reads the file. After a save that was cut short this may lose rules,
\* and what there is now is all that can be kept.
Start ==
    /\ ~running
    /\ running' = TRUE
    /\ rules' = Loaded(file)
    /\ IF cut /\ Loaded(file) # kept
       THEN kept' = Loaded(file) /\ lost' = TRUE /\ valid' = {}
       ELSE UNCHANGED <<kept, lost, valid>>
    /\ cut' = FALSE
    /\ UNCHANGED <<file, shown, changes, mishaps, reviewed>>

-----------------------------------------------------------------------------
Founds == UNION {[1..n -> Patterns] : n \in 1..MaxFound}
Indices == 1..Cardinality(Patterns)

Next ==
    \/ \E found \in Founds : Analyze(found)
    \/ \E page \in Pages :
        \/ LoadPage(page)
        \/ \E i \in Indices :
            \/ \E verdict \in {"approved", "rejected"} : Review(page, i, verdict)
            \/ Delete(page, i)
            \/ ClickMisses(page, i)
    \/ Stop
    \/ Start

Spec == Init /\ [][Next]_vars

-----------------------------------------------------------------------------
TypeOK ==
    /\ running \in BOOLEAN
    /\ rules \in Seq(Rule)
    /\ file \in {Missing, Torn} \/ (Len(file) = 2 /\ file[1] = "whole" /\ file[2] \in Seq(Rule))
    /\ shown \in [Pages -> Seq(Rule)]
    /\ changes \in 0..MaxChanges
    /\ mishaps \in 0..MaxMishaps
    /\ kept \in Seq(Rule)
    /\ reviewed \subseteq Patterns
    /\ cut \in BOOLEAN
    /\ lost \in BOOLEAN
    /\ valid \subseteq Pages

\* A pattern has one rule ("test_duplicate_requests_not_duplicated"): however
\* often the same requests are analysed, and whatever is reviewed, deleted or
\* reloaded in between. The endpoints could not tell two of them apart.
NoDuplicateRules ==
    \A i, j \in DOMAIN rules : rules[i].pattern = rules[j].pattern => i = j

\* The process may end at any moment: the file holds the rules as the last change
\* left them, and the next process has exactly these. The exception is a save that
\* was cut short - it raised, or the process died in it - and not yet followed by
\* one that worked: then the running process still has every rule, and its next
\* save makes up for it, but one that starts before that may have none.
RulesAreSaved ==
    /\ running => rules = kept
    /\ ~cut => Loaded(file) = kept

\* A review is final: a reviewed pattern has its rule, and the rule its verdict,
\* across any analysis, click, failing save or restart, until the rule is deleted
\* - or rules were lost, by a process that started after a save was cut short.
ReviewSticks ==
    running /\ ~lost =>
        \A p \in reviewed : \E i \in DOMAIN rules :
            rules[i].pattern = p /\ rules[i].status # "pending_review"

\* An index is as good as a name while no rule goes away: analyses, reviews and
\* restarts in between do not make a click on a page hit a rule that this page
\* does not show there. (After a deletion on another page it may, and after rules
\* were lost.)
IndicesStayGood ==
    running =>
        \A page \in valid : \A i \in DOMAIN shown[page] :
            i \in DOMAIN rules /\ rules[i].pattern = shown[page][i].pattern

=============================================================================
