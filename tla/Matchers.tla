------------------------------ MODULE Matchers ------------------------------
(***************************************************************************)
(* The two strategies without a memory: signatures                          *)
(* (strategies/signature.py) and header rules (header_validation.py).       *)
(*                                                                          *)
(* Which regular expressions and rules a request meets is part of the       *)
(* request: a set of matches <<kind, number>>, the kind a category of       *)
(* signatures or a kind of finding. The switches in the settings are read   *)
(* with every request, so they need no reload; a switch that is not in the  *)
(* settings counts as on.                                                   *)
(***************************************************************************)
EXTENDS ThreatScorer

\* CATEGORY_CONFIG_KEYS
Categories == {"sql_injection", "xss", "dom_xss", "ssti", "ssi", "xxe_xml",
               "command_injection", "file_inclusion", "file_upload"}

\* What evaluate() of the header rules can find ...
Findings == {"excessive_headers", "header_size", "forbidden_header", "tool", "content_type",
             "host", "no_user_agent", "automated_user_agent", "invalid_ip"}

\* ... and the findings that have a switch.
Switchable == {"forbidden_header", "tool", "content_type"}
Switches == Categories \cup Switchable

\* _get_threat_for_category
CategoryLevel == [c \in Categories |->
    CASE c \in {"xss", "ssi"} -> Medium
      [] c \in {"xxe_xml", "command_injection"} -> Critical
      [] OTHER -> High]

FindingLevel == [f \in Findings |->
    CASE f \in {"forbidden_header", "tool"} -> High
      [] f \in {"header_size", "no_user_agent", "automated_user_agent"} -> Low
      [] OTHER -> Medium]

\* The vote for what was found, given the confidence of a vote to allow.
MatchVote(found, kinds, levels, allow) ==
    LET hits == {match \in found : match[1] \in kinds}
    IN  [block |-> hits # {},
         level |-> Max({None} \cup {levels[match[1]] : match \in hits}),
         confidence |-> IF hits = {} THEN allow ELSE Min({95, 50 + 15 * Cardinality(hits)}),
         weight |-> 2]

SignatureVote(found, off) == MatchVote(found, Categories \ off, CategoryLevel, 90)
HeaderVote(found, off) == MatchVote(found, Findings \ off, FindingLevel, 95)

=============================================================================
